---------------------------- MODULE Spec2Model ----------------------------
(* Object selection and data/MC correction weights of tth-htt.            *)
(*                                                                          *)
(* Real-valued quantities (Double_t) are modelled as integers in units of  *)
(* 1/1000 ("milli"): pt = 20. is 20000, |eta| = 2.3 is 2300.  The literal  *)
(* probabilities and trigger scale factors are integers in units of        *)
(* 1/10000: 0.0301 is 301, 1.00 is 10000.  Int_t quantities are integers.  *)
(* Every operation is a call: Init draws the arguments, the action of the  *)
(* function applies it and stores what it returns.                         *)
EXTENDS Integers, Sequences, FiniteSets, TLC

VARIABLES
    pc,            \* "call": arguments drawn, function not yet run; "done": returned; "abort": assert failed
    fn,            \* the function that is called
    particles,     \* ParticleCollectionSelector: argument vector of const Tobj*
    store,         \* ParticleCollectionSelector: the records the pointers refer to
    selector_,     \* ParticleCollectionSelector: the Tsel member, as the set of record values it accepts
    selParticles,  \* ParticleCollectionSelector: returned vector
    hadTau,        \* RecoHadTauSelectorTight: the argument record
    muon,          \* RecoMuonSelectorFakeable: the argument record
    muonSel,       \* RecoMuonSelectorFakeable: the apply_* data members of the selector
    idxBin,        \* RecoMuonSelectorFakeable: the local idxBin (NoBin: not computed)
    passed,        \* return value of a selector predicate
    lepton1,       \* correction engine: (type, pt, eta) of lepton 1
    lepton2,       \* correction engine: (type, pt, eta) of lepton 2
    result,        \* correction engine: returned double of prob_chargeMisId and sf_triggerEff (units of 1/10000)
    sf,            \* correction engine: returned double of the sf_leptonID_and_Iso functions (a product of table entries)
    luts,          \* correction engine: the static TH1*/TH2* pointers that are non-null
    lepton,        \* RecoLepton, RecoMuon, GenLepton: the constructed object
    answers,       \* RecoLepton, RecoMuon: what is_electron() and is_muon() returned, once called
    readerClass,   \* readers: the class whose static members and objects are followed
    readers,       \* readers: the objects of the class, by identity
    numInstances_, \* readers: static std::map<std::string, int>
    instances_,    \* readers: static std::map<std::string, reader*>
    leptonInstances_, \* readers: RecoLeptonReader::instances_ and the objects it points to
    ret,           \* readers: how the last operation ended and what it returned
    thr,           \* table cache: where each thread stands in its scale-factor call
    loads,         \* table cache: how many times loadTH1/loadTH2 has run for each table
    lutReads       \* table cache: the tables get_sf_from_TH1/TH2 has read

\* the variables of the lepton classes and of the readers
lepVars == <<lepton, answers>>
readerVars == <<readerClass, readers, numInstances_, instances_, leptonInstances_, ret>>
cacheVars == <<thr, loads, lutReads>>

vars == <<pc, fn, particles, store, selector_, selParticles, hadTau, muon, muonSel,
          idxBin, passed, lepton1, lepton2, result, sf, luts, lepVars, readerVars,
          cacheVars>>

\* std::fabs
Abs(x) == IF x < 0 THEN -x ELSE x

\* std::max(a, b): (a < b) ? b : a
Max(a, b) == IF a < b THEN b ELSE a

\* int idxBin = -1
NoBin == -1
NoLepton == [type |-> -1, pt |-> 0, eta |-> 0]

\* values of the variables a component does not use
IdleSelector ==
    /\ particles = << >> /\ store = << >> /\ selector_ = {} /\ selParticles = << >>
IdleHadTau == hadTau = << >>
IdleMuon == muon = << >> /\ muonSel = << >> /\ idxBin = NoBin
\* the double 1. as a product of table entries: the empty product
One == [one |-> TRUE]
IdleCorr == lepton1 = NoLepton /\ lepton2 = NoLepton /\ result = 0 /\ sf = One /\ luts = {}
IdleLepton == lepton = << >> /\ answers = << >>
IdleReader ==
    /\ readerClass = "" /\ readers = << >> /\ numInstances_ = << >> /\ instances_ = << >>
    /\ leptonInstances_ = << >>
    /\ ret = << >>
IdleCache == thr = << >> /\ loads = << >> /\ lutReads = {}

--------------------------------------------------------------------------
(* ParticleCollectionSelector<Tobj, Tsel>::operator()                     *)

\* number of distinct records an event holds
NumObj == 3
\* longest argument vector
MaxLen == 3
\* number of distinct values a record's content takes (what the selector looks at)
NumVal == 2

Refs == 1..NumObj
Vals == 1..NumVal

\* all vectors of pointers of length <= MaxLen
PtrSeqs == UNION { [1..n -> Refs] : n \in 0..MaxLen }

\* selector_(**particle)
SelectorAccepts(sel, recs, p) == recs[p] \in sel

\* mutant: the loop compares with the last pushed pointer and skips a repeat
RECURSIVE SelectLoopDedup(_, _, _, _)
SelectLoopDedup(sel, recs, ps, i) ==
    IF i > Len(ps) THEN << >>
    ELSE LET rest == SelectLoopDedup(sel, recs, ps, i + 1)
         IN IF SelectorAccepts(sel, recs, ps[i]) /\ (i = 1 \/ ps[i - 1] # ps[i])
            THEN <<ps[i]>> \o rest
            ELSE rest

\* the for loop over particles.begin()..particles.end(), from position i on
RECURSIVE SelectLoop(_, _, _, _)
SelectLoop(sel, recs, ps, i) ==
    IF i > Len(ps) THEN << >>
    ELSE LET rest == SelectLoop(sel, recs, ps, i + 1)
         IN IF SelectorAccepts(sel, recs, ps[i])
            THEN <<ps[i]>> \o rest
            ELSE rest

InitSelector ==
    /\ pc = "call" /\ fn = "ParticleCollectionSelector"
    /\ particles \in PtrSeqs
    /\ store \in [Refs -> Vals]
    /\ selector_ \in SUBSET Vals
    /\ selParticles = << >>
    /\ passed = FALSE
    /\ IdleHadTau /\ IdleMuon /\ IdleCorr /\ IdleLepton /\ IdleReader /\ IdleCache

CallCollectionSelector ==
    /\ pc = "call" /\ fn = "ParticleCollectionSelector"
    /\ selParticles' = SelectLoop(selector_, store, particles, 1)
    /\ pc' = "done"
    /\ UNCHANGED <<fn, particles, store, selector_, hadTau, muon, muonSel, idxBin,
                   passed, lepton1, lepton2, result, sf, luts,
                   lepVars, readerVars, cacheVars>>

NextSelector == CallCollectionSelector

SpecSelector == InitSelector /\ [][NextSelector]_vars

\* C1: a call of the collection selector returns exactly the pointers whose record
\* the selector accepts, in their original order and with repeats kept; a selector
\* accepting everything returns the argument itself, one accepting nothing returns
\* the empty vector; the argument vector and the records are left as they were.
C1_SelectsExactlyAccepted ==
    [][ (pc = "call" /\ fn = "ParticleCollectionSelector" /\ pc' = "done") =>
          LET Accepted(p) == store[p] \in selector_
          IN /\ selParticles' = SelectSeq(particles, Accepted)
             /\ (selector_ = Vals => selParticles' = particles)
             /\ (selector_ = {} => selParticles' = << >>)
             /\ particles' = particles
             /\ store' = store
             /\ selector_' = selector_ ]_vars

\* a vector holding an accepted pointer twice around a rejected one has been filtered
C1_Witness ==
    /\ pc = "done" /\ fn = "ParticleCollectionSelector"
    /\ Len(particles) = 3
    /\ particles[1] = particles[3] /\ particles[1] # particles[2]
    /\ store[particles[1]] \in selector_
    /\ store[particles[2]] \notin selector_
    /\ selParticles = <<particles[1], particles[1]>>

--------------------------------------------------------------------------
(* RecoHadTauSelectorTight                                                *)

\* the constructor's member initializers (doubles in milli units)
min_pt_ == 20000
max_absEta_ == 2300
max_dz_ == 200
min_decayModeFinding_ == 1
min_id_mva_dR03_ == -1000
min_raw_mva_dR03_ == -1000000000
min_id_mva_dR05_ == -1000
min_raw_mva_dR05_ == -1000000000
min_id_cut_dR03_ == -1000
max_raw_cut_dR03_ == 1000000000
min_id_cut_dR05_ == 1
max_raw_cut_dR05_ == 1000000000
min_antiElectron_ == -1000
min_antiMuon_ == -1000

\* mutant: the pt cut written with > instead of >=
HadTauTightStrictPt(t) ==
    /\ t.pt_ > min_pt_
    /\ t.absEta_ <= max_absEta_
    /\ Abs(t.dz_) <= max_dz_
    /\ t.decayModeFinding_ >= min_decayModeFinding_
    /\ t.id_mva_dR03_ >= min_id_mva_dR03_
    /\ t.raw_mva_dR03_ >= min_raw_mva_dR03_
    /\ t.id_mva_dR05_ >= min_id_mva_dR05_
    /\ t.raw_mva_dR05_ >= min_raw_mva_dR05_
    /\ t.id_cut_dR03_ >= min_id_cut_dR03_
    /\ t.raw_cut_dR03_ <= max_raw_cut_dR03_
    /\ t.id_cut_dR05_ >= min_id_cut_dR05_
    /\ t.raw_cut_dR05_ <= max_raw_cut_dR05_
    /\ t.antiElectron_ >= min_antiElectron_
    /\ t.antiMuon_ >= min_antiMuon_

\* mutant: the cut on the dR05 combined-isolation working point left out
HadTauTightNoIdCut05(t) ==
    /\ t.pt_ >= min_pt_
    /\ t.absEta_ <= max_absEta_
    /\ Abs(t.dz_) <= max_dz_
    /\ t.decayModeFinding_ >= min_decayModeFinding_
    /\ t.id_mva_dR03_ >= min_id_mva_dR03_
    /\ t.raw_mva_dR03_ >= min_raw_mva_dR03_
    /\ t.id_mva_dR05_ >= min_id_mva_dR05_
    /\ t.raw_mva_dR05_ >= min_raw_mva_dR05_
    /\ t.id_cut_dR03_ >= min_id_cut_dR03_
    /\ t.raw_cut_dR03_ <= max_raw_cut_dR03_
    /\ t.raw_cut_dR05_ <= max_raw_cut_dR05_
    /\ t.antiElectron_ >= min_antiElectron_
    /\ t.antiMuon_ >= min_antiMuon_

\* RecoHadTauSelectorTight::operator(): the if condition; true is returned iff it holds
HadTauTight(t) ==
    /\ t.pt_ >= min_pt_
    /\ t.absEta_ <= max_absEta_
    /\ Abs(t.dz_) <= max_dz_
    /\ t.decayModeFinding_ >= min_decayModeFinding_
    /\ t.id_mva_dR03_ >= min_id_mva_dR03_
    /\ t.raw_mva_dR03_ >= min_raw_mva_dR03_
    /\ t.id_mva_dR05_ >= min_id_mva_dR05_
    /\ t.raw_mva_dR05_ >= min_raw_mva_dR05_
    /\ t.id_cut_dR03_ >= min_id_cut_dR03_
    /\ t.raw_cut_dR03_ <= max_raw_cut_dR03_
    /\ t.id_cut_dR05_ >= min_id_cut_dR05_
    /\ t.raw_cut_dR05_ <= max_raw_cut_dR05_
    /\ t.antiElectron_ >= min_antiElectron_
    /\ t.antiMuon_ >= min_antiMuon_

\* the values a lower-bounded field is drawn from: just below, and at, the bound
AtMin(m) == {m - 1, m}
\* the values an upper-bounded field is drawn from: at, and just above, the bound
AtMax(m) == {m, m + 1}

HadTaus ==
    [ pt_ : AtMin(min_pt_) \cup {min_pt_ + 1},
      absEta_ : AtMax(max_absEta_) \cup {max_absEta_ - 1},
      dz_ : {-(max_dz_ + 1), -max_dz_, 0, max_dz_, max_dz_ + 1},
      decayModeFinding_ : AtMin(min_decayModeFinding_),
      id_mva_dR03_ : AtMin(min_id_mva_dR03_),
      raw_mva_dR03_ : AtMin(min_raw_mva_dR03_),
      id_mva_dR05_ : AtMin(min_id_mva_dR05_),
      raw_mva_dR05_ : AtMin(min_raw_mva_dR05_),
      id_cut_dR03_ : AtMin(min_id_cut_dR03_),
      raw_cut_dR03_ : AtMax(max_raw_cut_dR03_),
      id_cut_dR05_ : AtMin(min_id_cut_dR05_),
      raw_cut_dR05_ : AtMax(max_raw_cut_dR05_),
      antiElectron_ : AtMin(min_antiElectron_),
      antiMuon_ : AtMin(min_antiMuon_) ]

InitHadTau ==
    /\ pc = "call" /\ fn = "RecoHadTauSelectorTight"
    /\ hadTau \in HadTaus
    /\ passed = FALSE
    /\ IdleSelector /\ IdleMuon /\ IdleCorr /\ IdleLepton /\ IdleReader /\ IdleCache

CallHadTauSelectorTight ==
    /\ pc = "call" /\ fn = "RecoHadTauSelectorTight"
    /\ passed' = HadTauTight(hadTau)
    /\ pc' = "done"
    /\ UNCHANGED <<fn, particles, store, selector_, selParticles, hadTau, muon, muonSel,
                   idxBin, lepton1, lepton2, result, sf, luts,
                   lepVars, readerVars, cacheVars>>

NextHadTau == CallHadTauSelectorTight

SpecHadTau == InitHadTau /\ [][NextHadTau]_vars

\* the fourteen cuts: the field, the side of the bound that passes, the bound
TauCuts ==
    { <<"pt_", "min", min_pt_>>,
      <<"absEta_", "max", max_absEta_>>,
      <<"dz_", "maxabs", max_dz_>>,
      <<"decayModeFinding_", "min", min_decayModeFinding_>>,
      <<"id_mva_dR03_", "min", min_id_mva_dR03_>>,
      <<"raw_mva_dR03_", "min", min_raw_mva_dR03_>>,
      <<"id_mva_dR05_", "min", min_id_mva_dR05_>>,
      <<"raw_mva_dR05_", "min", min_raw_mva_dR05_>>,
      <<"id_cut_dR03_", "min", min_id_cut_dR03_>>,
      <<"raw_cut_dR03_", "max", max_raw_cut_dR03_>>,
      <<"id_cut_dR05_", "min", min_id_cut_dR05_>>,
      <<"raw_cut_dR05_", "max", max_raw_cut_dR05_>>,
      <<"antiElectron_", "min", min_antiElectron_>>,
      <<"antiMuon_", "min", min_antiMuon_>> }

CutFails(t, c) ==
    CASE c[2] = "min" -> t[c[1]] < c[3]
      [] c[2] = "max" -> t[c[1]] > c[3]
      [] c[2] = "maxabs" -> Abs(t[c[1]]) > c[3]

FailedTauCuts(t) == { c \in TauCuts : CutFails(t, c) }

\* the tau exactly at every threshold: pt = 20, |eta| = 2.3, |dz| = 0.2, every
\* discriminant at its threshold
BoundaryTau ==
    [ pt_ |-> 20000, absEta_ |-> 2300, dz_ |-> 200,
      decayModeFinding_ |-> min_decayModeFinding_,
      id_mva_dR03_ |-> min_id_mva_dR03_, raw_mva_dR03_ |-> min_raw_mva_dR03_,
      id_mva_dR05_ |-> min_id_mva_dR05_, raw_mva_dR05_ |-> min_raw_mva_dR05_,
      id_cut_dR03_ |-> min_id_cut_dR03_, raw_cut_dR03_ |-> max_raw_cut_dR03_,
      id_cut_dR05_ |-> min_id_cut_dR05_, raw_cut_dR05_ |-> max_raw_cut_dR05_,
      antiElectron_ |-> min_antiElectron_, antiMuon_ |-> min_antiMuon_ ]

\* the boundary tau with the one field of cut c moved one step past its threshold
JustPast(c) ==
    [BoundaryTau EXCEPT ![c[1]] = IF c[2] = "min" THEN c[3] - 1 ELSE c[3] + 1]

\* C2: the tau at every threshold boundary passes the tight selector, and the
\* boundary tau with any single one of the fourteen conditions moved past its
\* threshold (for dz on either side) fails.
C2_BoundaryPassesOneOffFails ==
    (pc = "done" /\ fn = "RecoHadTauSelectorTight") =>
        /\ Cardinality(TauCuts) = 14
        /\ (hadTau \in {BoundaryTau, [BoundaryTau EXCEPT !.dz_ = -200]} => passed)
        /\ \A c \in TauCuts :
             (hadTau = JustPast(c) \/ hadTau = [BoundaryTau EXCEPT !.dz_ = -201]) => ~passed

C2_Witness ==
    pc = "done" /\ fn = "RecoHadTauSelectorTight" /\ hadTau = BoundaryTau /\ passed

\* C3: the tight selector returns true iff none of the fourteen conditions fails.
C3_PassesIffAllCutsHold ==
    (pc = "done" /\ fn = "RecoHadTauSelectorTight") =>
        (passed <=> FailedTauCuts(hadTau) = {})

\* a tau failing only the dR05 combined-isolation working point is rejected
C3_Witness ==
    /\ pc = "done" /\ fn = "RecoHadTauSelectorTight"
    /\ FailedTauCuts(hadTau) = { <<"id_cut_dR05_", "min", min_id_cut_dR05_>> }
    /\ ~passed

--------------------------------------------------------------------------
(* RecoMuonSelectorFakeable                                               *)

\* the constructor's member initializers (doubles in milli units)
mu_min_pt_ == 10000
mu_max_absEta_ == 2400
mu_max_dxy_ == 50
mu_max_dz_ == 100
mu_max_relIso_ == 400
mu_max_sip3d_ == 8000
binning_mvaTTH_ == <<750>>
min_jetPtRatio_ == <<300, -1000000>>
max_jetBtagCSV_ == <<605, 890>>
\* the apply_* members as the constructor sets them
MuonSelDefault ==
    [ apply_looseIdPOG_ |-> TRUE, apply_mediumIdPOG_ |-> FALSE, apply_tightCharge_ |-> FALSE ]

\* v[idx] of a std::vector (0-based)
At(v, idx) == v[idx + 1]

\* mutant: the medium-id flag is required whether or not apply_mediumIdPOG_ is set
MuonBaseCutsAlwaysMedium(m, sel) ==
    /\ m.pt_ >= mu_min_pt_
    /\ m.absEta_ <= mu_max_absEta_
    /\ Abs(m.dxy_) <= mu_max_dxy_
    /\ Abs(m.dz_) <= mu_max_dz_
    /\ m.relIso_ <= mu_max_relIso_
    /\ m.sip3d_ <= mu_max_sip3d_
    /\ (m.passesLooseIdPOG_ # 0 \/ ~sel.apply_looseIdPOG_)
    /\ m.passesMediumIdPOG_ # 0
    /\ (m.tightCharge_ >= 2 \/ ~sel.apply_tightCharge_)

\* the outer if condition of RecoMuonSelectorFakeable::operator()
MuonBaseCuts(m, sel) ==
    /\ m.pt_ >= mu_min_pt_
    /\ m.absEta_ <= mu_max_absEta_
    /\ Abs(m.dxy_) <= mu_max_dxy_
    /\ Abs(m.dz_) <= mu_max_dz_
    /\ m.relIso_ <= mu_max_relIso_
    /\ m.sip3d_ <= mu_max_sip3d_
    /\ (m.passesLooseIdPOG_ # 0 \/ ~sel.apply_looseIdPOG_)
    /\ (m.passesMediumIdPOG_ # 0 \/ ~sel.apply_mediumIdPOG_)
    /\ (m.tightCharge_ >= 2 \/ ~sel.apply_tightCharge_)

\* mutant: no else branch, idxBin keeps its initial value below the threshold
MuonIdxBinNoElse(m) == IF m.mvaRawTTH_ >= At(binning_mvaTTH_, 0) THEN 0 ELSE NoBin

\* mutant: the score compared with > instead of >=
MuonIdxBinStrict(m) == IF m.mvaRawTTH_ > At(binning_mvaTTH_, 0) THEN 0 ELSE 1

\* if ( muon.mvaRawTTH_ >= binning_mvaTTH_[0] ) idxBin = 0; else idxBin = 1;
MuonIdxBin(m) == IF m.mvaRawTTH_ >= At(binning_mvaTTH_, 0) THEN 0 ELSE 1

\* the inner if condition: the cuts of bin idx
MuonBinCuts(m, idx) ==
    /\ m.jetPtRatio_ >= At(min_jetPtRatio_, idx)
    /\ m.jetBtagCSV_ <= At(max_jetBtagCSV_, idx)

Muons ==
    [ pt_ : AtMin(mu_min_pt_),
      absEta_ : AtMax(mu_max_absEta_),
      dxy_ : {-(mu_max_dxy_ + 1), -mu_max_dxy_, mu_max_dxy_, mu_max_dxy_ + 1},
      dz_ : {-(mu_max_dz_ + 1), -mu_max_dz_, mu_max_dz_, mu_max_dz_ + 1},
      relIso_ : AtMax(mu_max_relIso_),
      sip3d_ : AtMax(mu_max_sip3d_),
      passesLooseIdPOG_ : {0, 1},
      passesMediumIdPOG_ : {0, 1},
      tightCharge_ : AtMin(2),
      mvaRawTTH_ : AtMin(At(binning_mvaTTH_, 0)),
      jetPtRatio_ : AtMin(At(min_jetPtRatio_, 0)) \cup AtMin(At(min_jetPtRatio_, 1)),
      jetBtagCSV_ : AtMax(At(max_jetBtagCSV_, 0)) \cup AtMax(At(max_jetBtagCSV_, 1)) ]

\* the apply_* members are protected data members: the constructor sets
\* MuonSelDefault, a derived selector may set them otherwise
MuonSels ==
    [ apply_looseIdPOG_ : BOOLEAN, apply_mediumIdPOG_ : BOOLEAN, apply_tightCharge_ : BOOLEAN ]

InitMuon ==
    /\ pc = "call" /\ fn = "RecoMuonSelectorFakeable"
    /\ muon \in Muons
    /\ muonSel \in MuonSels
    /\ idxBin = NoBin
    /\ passed = FALSE
    /\ IdleSelector /\ IdleHadTau /\ IdleCorr /\ IdleLepton /\ IdleReader /\ IdleCache

\* the outer condition fails: return false
CallMuonSelectorFakeable_Rejected ==
    /\ pc = "call" /\ fn = "RecoMuonSelectorFakeable"
    /\ ~MuonBaseCuts(muon, muonSel)
    /\ passed' = FALSE
    /\ pc' = "done"
    /\ UNCHANGED <<fn, particles, store, selector_, selParticles, hadTau, muon, muonSel,
                   idxBin, lepton1, lepton2, result, sf, luts,
                   lepVars, readerVars, cacheVars>>

\* the outer condition holds: the bin is computed, asserted to be 0 or 1, and its cuts decide
CallMuonSelectorFakeable_Binned ==
    /\ pc = "call" /\ fn = "RecoMuonSelectorFakeable"
    /\ MuonBaseCuts(muon, muonSel)
    /\ idxBin' = MuonIdxBin(muon)
    /\ IF idxBin' >= 0 /\ idxBin' <= 1
       THEN /\ passed' = MuonBinCuts(muon, idxBin')
            /\ pc' = "done"
       ELSE /\ passed' = passed
            /\ pc' = "abort"
    /\ UNCHANGED <<fn, particles, store, selector_, selParticles, hadTau, muon, muonSel,
                   lepton1, lepton2, result, sf, luts,
                   lepVars, readerVars, cacheVars>>

NextMuon == CallMuonSelectorFakeable_Rejected \/ CallMuonSelectorFakeable_Binned

SpecMuon == InitMuon /\ [][NextMuon]_vars

\* C4: the fakeable muon selector returns true iff pt >= 10, |eta| <= 2.4,
\* |dxy| <= 0.05, |dz| <= 0.1, relIso <= 0.4, sip3d <= 8, each of the loose-id,
\* medium-id and tight-charge (>= 2) requirements holds when its apply_ flag is on,
\* and jetPtRatio and jetBtagCSV are within the bounds of the bin of the MVA score;
\* with a requirement switched off the flag's value does not enter.
C4_PassesIffAllCutsHold ==
    (pc # "call" /\ fn = "RecoMuonSelectorFakeable") =>
        /\ pc = "done"
        /\ passed <=>
            /\ muon.pt_ >= 10000 /\ muon.absEta_ <= 2400
            /\ muon.dxy_ \in -50..50 /\ muon.dz_ \in -100..100
            /\ muon.relIso_ <= 400 /\ muon.sip3d_ <= 8000
            /\ (muonSel.apply_looseIdPOG_ => muon.passesLooseIdPOG_ # 0)
            /\ (muonSel.apply_mediumIdPOG_ => muon.passesMediumIdPOG_ # 0)
            /\ (muonSel.apply_tightCharge_ => muon.tightCharge_ >= 2)
            /\ \E b \in {0, 1} :
                 /\ b = (IF muon.mvaRawTTH_ >= 750 THEN 0 ELSE 1)
                 /\ muon.jetPtRatio_ >= At(min_jetPtRatio_, b)
                 /\ muon.jetBtagCSV_ <= At(max_jetBtagCSV_, b)

\* with the constructor's flags a muon failing medium id and tight charge is selected
C4_Witness ==
    /\ pc = "done" /\ fn = "RecoMuonSelectorFakeable"
    /\ muonSel = MuonSelDefault
    /\ muon.passesLooseIdPOG_ = 1 /\ muon.passesMediumIdPOG_ = 0 /\ muon.tightCharge_ = 1
    /\ muon.pt_ = 10000 /\ muon.absEta_ = 2400 /\ muon.dxy_ = -50 /\ muon.dz_ = 100
    /\ passed

--------------------------------------------------------------------------
(* backgroundEstimation.cc and data_to_MC_corrections.cc                  *)

\* leptonTypes.h: enum { kElectron, kMuon }
kElectron == 0
kMuon == 1

\* a call that returns the double v, and a call ended by assert(0)
Returned(v) == [abort |-> FALSE, val |-> v]
Aborted == [abort |-> TRUE, val |-> 0]

\* mutant: prob initialized to 0. instead of 1.
prob_chargeMisId_ZeroDefault(lepton_type, lepton_pt, lepton_eta) ==
    LET abs_lepton_eta == Abs(lepton_eta)
        prob == IF abs_lepton_eta >= 0 /\ abs_lepton_eta < 1479
                THEN IF lepton_pt >= 10000 /\ lepton_pt < 25000 THEN 301
                     ELSE IF lepton_pt >= 25000 /\ lepton_pt < 50000 THEN 287
                     ELSE IF lepton_pt >= 50000 THEN 293
                     ELSE 0
                ELSE IF abs_lepton_eta >= 1479 /\ abs_lepton_eta < 2500
                THEN IF lepton_pt >= 10000 /\ lepton_pt < 25000 THEN 1728
                     ELSE IF lepton_pt >= 25000 /\ lepton_pt < 50000 THEN 1974
                     ELSE IF lepton_pt >= 50000 THEN 3457
                     ELSE 0
                ELSE 0
    IN IF lepton_type = kElectron THEN Returned(prob)
       ELSE IF lepton_type = kMuon THEN Returned(10000)
       ELSE Aborted

\* mutant: the upper edge of the middle pt bin taken inclusive (pt <= 50)
prob_chargeMisId_InclusiveEdge(lepton_type, lepton_pt, lepton_eta) ==
    LET abs_lepton_eta == Abs(lepton_eta)
        prob == IF abs_lepton_eta >= 0 /\ abs_lepton_eta < 1479
                THEN IF lepton_pt >= 10000 /\ lepton_pt < 25000 THEN 301
                     ELSE IF lepton_pt >= 25000 /\ lepton_pt <= 50000 THEN 287
                     ELSE IF lepton_pt >= 50000 THEN 293
                     ELSE 10000
                ELSE IF abs_lepton_eta >= 1479 /\ abs_lepton_eta < 2500
                THEN IF lepton_pt >= 10000 /\ lepton_pt < 25000 THEN 1728
                     ELSE IF lepton_pt >= 25000 /\ lepton_pt <= 50000 THEN 1974
                     ELSE IF lepton_pt >= 50000 THEN 3457
                     ELSE 10000
                ELSE 10000
    IN IF lepton_type = kElectron THEN Returned(prob)
       ELSE IF lepton_type = kMuon THEN Returned(10000)
       ELSE Aborted

\* prob_chargeMisId: prob = 1.; the electron branch overwrites it in a tabulated
\* bin; the muon branch sets 1.; any other type is assert(0)
prob_chargeMisId(lepton_type, lepton_pt, lepton_eta) ==
    LET abs_lepton_eta == Abs(lepton_eta)
        prob == IF abs_lepton_eta >= 0 /\ abs_lepton_eta < 1479
                THEN IF lepton_pt >= 10000 /\ lepton_pt < 25000 THEN 301
                     ELSE IF lepton_pt >= 25000 /\ lepton_pt < 50000 THEN 287
                     ELSE IF lepton_pt >= 50000 THEN 293
                     ELSE 10000
                ELSE IF abs_lepton_eta >= 1479 /\ abs_lepton_eta < 2500
                THEN IF lepton_pt >= 10000 /\ lepton_pt < 25000 THEN 1728
                     ELSE IF lepton_pt >= 25000 /\ lepton_pt < 50000 THEN 1974
                     ELSE IF lepton_pt >= 50000 THEN 3457
                     ELSE 10000
                ELSE 10000
    IN IF lepton_type = kElectron THEN Returned(prob)
       ELSE IF lepton_type = kMuon THEN Returned(10000)
       ELSE Aborted

\* mutant: the electron threshold taken inclusive (pt >= 40)
sf_triggerEff_1lepton_Inclusive(lepton1_type, lepton1_pt, lepton1_eta) ==
    IF lepton1_type = kElectron
    THEN IF lepton1_pt >= 40000 THEN Returned(9900) ELSE Returned(9500)
    ELSE IF lepton1_type = kMuon THEN Returned(9800)
    ELSE Returned(10000)

\* sf_triggerEff(int, double, double)
sf_triggerEff_1lepton(lepton1_type, lepton1_pt, lepton1_eta) ==
    IF lepton1_type = kElectron
    THEN IF lepton1_pt > 40000 THEN Returned(9900) ELSE Returned(9500)
    ELSE IF lepton1_type = kMuon THEN Returned(9800)
    ELSE Returned(10000)

\* mutant: the pt of lepton 1 compared instead of the larger of the two
sf_triggerEff_2leptons_FirstPt(lepton1_type, lepton1_pt, lepton1_eta, lepton2_type, lepton2_pt, lepton2_eta) ==
    IF lepton1_type = kElectron /\ lepton2_type = kElectron
    THEN IF lepton1_pt > 40000 THEN Returned(9900) ELSE Returned(9500)
    ELSE IF lepton1_type = kMuon /\ lepton2_type = kMuon THEN Returned(9800)
    ELSE Returned(10000)

\* sf_triggerEff(int, double, double, int, double, double)
sf_triggerEff_2leptons(lepton1_type, lepton1_pt, lepton1_eta, lepton2_type, lepton2_pt, lepton2_eta) ==
    IF lepton1_type = kElectron /\ lepton2_type = kElectron
    THEN IF Max(lepton1_pt, lepton2_pt) > 40000 THEN Returned(9900) ELSE Returned(9500)
    ELSE IF lepton1_type = kMuon /\ lepton2_type = kMuon THEN Returned(9800)
    ELSE Returned(10000)

(* The identification/isolation scale factors.  A double computed from the  *)
(* lookup tables is kept as the product it is: an entry of a table, or the  *)
(* product of two such values.  a*b = b*a and a*1. = a hold of doubles and  *)
(* of this form; (a*b)*c = a*(b*c) holds of neither.                        *)

\* get_sf_from_TH2(lut, x, y): the entry of table lut the point (x, y) falls in
get_sf_from_TH2(lut, x, y) == [lut |-> lut, at |-> <<x, y>>]
\* get_sf_from_TH1(lut, x)
get_sf_from_TH1(lut, x) == [lut |-> lut, at |-> <<x>>]

\* the double a*b
Mul(a, b) ==
    IF a = One THEN b
    ELSE IF b = One THEN a
    ELSE [mul |-> {a, b}]

\* if ( !lut ) lut = loadTH1/loadTH2(...); assert(lut): the static pointers that
\* are non-null afterwards
Loaded(L, lut) == L \cup {lut}

\* a scale-factor call that returns v with the static pointers L, and one ended by assert(0)
ReturnedSf(v, L) == [abort |-> FALSE, val |-> v, luts |-> L]
AbortedSf(L) == [abort |-> TRUE, val |-> One, luts |-> L]

sf_electronID_and_Iso_loose(electron_pt, electron_eta, L) ==
    LET sf_id_loose == get_sf_from_TH2("electron.lut_id_loose", electron_pt, electron_eta)
        sf_iso == get_sf_from_TH2("electron.lut_iso", electron_pt, electron_eta)
    IN ReturnedSf(Mul(sf_id_loose, sf_iso),
                  Loaded(Loaded(L, "electron.lut_id_loose"), "electron.lut_iso"))

sf_electronID_and_Iso_tight_to_loose(electron_pt, electron_eta, L) ==
    LET sf_convVeto == get_sf_from_TH2("electron.lut_convVeto", electron_pt, electron_eta)
        lut_id_tight == IF Abs(electron_eta) < 1479
                        THEN "electron.lut_id_tight_barrel"
                        ELSE "electron.lut_id_tight_endcap"
        sf_id_tight == get_sf_from_TH1(lut_id_tight, electron_pt)
    IN ReturnedSf(Mul(sf_convVeto, sf_id_tight),
                  Loaded(Loaded(L, "electron.lut_convVeto"), lut_id_tight))

\* mutant: the conversion-veto entry enters the tight scale factor a second time
sf_electronID_and_Iso_tight_ExtraTerm(electron_pt, electron_eta, L) ==
    LET sf_loose == sf_electronID_and_Iso_loose(electron_pt, electron_eta, L)
        sf_tight_to_loose ==
            sf_electronID_and_Iso_tight_to_loose(electron_pt, electron_eta, sf_loose.luts)
        sf_convVeto == get_sf_from_TH2("electron.lut_convVeto", electron_pt, electron_eta)
    IN ReturnedSf(Mul(Mul(sf_loose.val, sf_tight_to_loose.val), sf_convVeto),
                  sf_tight_to_loose.luts)

sf_electronID_and_Iso_tight(electron_pt, electron_eta, L) ==
    LET sf_loose == sf_electronID_and_Iso_loose(electron_pt, electron_eta, L)
        sf_tight_to_loose ==
            sf_electronID_and_Iso_tight_to_loose(electron_pt, electron_eta, sf_loose.luts)
    IN ReturnedSf(Mul(sf_loose.val, sf_tight_to_loose.val), sf_tight_to_loose.luts)

\* mutant: |eta| = 1.2 is read from the barrel table
sf_muonID_and_Iso_loose_InclusiveBarrel(muon_pt, muon_eta, L) ==
    LET sf_id_loose == get_sf_from_TH2("muon.lut_id_loose", muon_pt, muon_eta)
        lut_iso == IF Abs(muon_eta) <= 1200 THEN "muon.lut_iso_barrel" ELSE "muon.lut_iso_endcap"
        sf_iso == get_sf_from_TH1(lut_iso, muon_pt)
        sf_ip == get_sf_from_TH1("muon.lut_ip", muon_eta)
    IN ReturnedSf(Mul(Mul(sf_id_loose, sf_iso), sf_ip),
                  Loaded(Loaded(Loaded(L, "muon.lut_id_loose"), lut_iso), "muon.lut_ip"))

\* lut_ip is declared TH1*, filled by loadTH2 and read by get_sf_from_TH1 at muon_eta
sf_muonID_and_Iso_loose(muon_pt, muon_eta, L) ==
    LET sf_id_loose == get_sf_from_TH2("muon.lut_id_loose", muon_pt, muon_eta)
        lut_iso == IF Abs(muon_eta) < 1200 THEN "muon.lut_iso_barrel" ELSE "muon.lut_iso_endcap"
        sf_iso == get_sf_from_TH1(lut_iso, muon_pt)
        sf_ip == get_sf_from_TH1("muon.lut_ip", muon_eta)
    IN ReturnedSf(Mul(Mul(sf_id_loose, sf_iso), sf_ip),
                  Loaded(Loaded(Loaded(L, "muon.lut_id_loose"), lut_iso), "muon.lut_ip"))

sf_muonID_and_Iso_tight_to_loose(muon_pt, muon_eta, L) ==
    LET lut_id_tight == IF Abs(muon_eta) < 1200
                        THEN "muon.lut_id_tight_barrel"
                        ELSE "muon.lut_id_tight_endcap"
        sf_id_tight == get_sf_from_TH1(lut_id_tight, muon_pt)
    IN ReturnedSf(sf_id_tight, Loaded(L, lut_id_tight))

sf_muonID_and_Iso_tight(muon_pt, muon_eta, L) ==
    LET sf_loose == sf_muonID_and_Iso_loose(muon_pt, muon_eta, L)
        sf_tight_to_loose == sf_muonID_and_Iso_tight_to_loose(muon_pt, muon_eta, sf_loose.luts)
    IN ReturnedSf(Mul(sf_loose.val, sf_tight_to_loose.val), sf_tight_to_loose.luts)

\* mutant: an unrecognized type keeps sf = 1. and returns it (no assert(0))
sf_leptonID_and_Iso_loose_1lepton_NoAssert(lepton1_type, lepton1_pt, lepton1_eta, L) ==
    IF lepton1_type = kElectron THEN sf_electronID_and_Iso_loose(lepton1_pt, lepton1_eta, L)
    ELSE IF lepton1_type = kMuon THEN sf_muonID_and_Iso_loose(lepton1_pt, lepton1_eta, L)
    ELSE ReturnedSf(One, L)

\* sf_leptonID_and_Iso_loose(int, double, double)
sf_leptonID_and_Iso_loose_1lepton(lepton1_type, lepton1_pt, lepton1_eta, L) ==
    IF lepton1_type = kElectron THEN sf_electronID_and_Iso_loose(lepton1_pt, lepton1_eta, L)
    ELSE IF lepton1_type = kMuon THEN sf_muonID_and_Iso_loose(lepton1_pt, lepton1_eta, L)
    ELSE AbortedSf(L)

\* mutant: the second factor is computed from lepton 1 again
sf_leptonID_and_Iso_loose_2leptons_Lepton1Twice(lepton1_type, lepton1_pt, lepton1_eta, lepton2_type, lepton2_pt, lepton2_eta, L) ==
    LET lepton1_sf ==
            IF lepton1_type = kElectron
            THEN sf_electronID_and_Iso_loose(lepton1_pt, lepton1_eta, L)
            ELSE IF lepton1_type = kMuon
            THEN sf_muonID_and_Iso_loose(lepton1_pt, lepton1_eta, L)
            ELSE AbortedSf(L)
        lepton2_sf ==
            IF lepton2_type = kElectron
            THEN sf_electronID_and_Iso_loose(lepton1_pt, lepton1_eta, lepton1_sf.luts)
            ELSE IF lepton2_type = kMuon
            THEN sf_muonID_and_Iso_loose(lepton1_pt, lepton1_eta, lepton1_sf.luts)
            ELSE AbortedSf(lepton1_sf.luts)
    IN IF lepton1_sf.abort THEN lepton1_sf
       ELSE IF lepton2_sf.abort THEN lepton2_sf
       ELSE ReturnedSf(Mul(lepton1_sf.val, lepton2_sf.val), lepton2_sf.luts)

\* sf_leptonID_and_Iso_loose(int, double, double, int, double, double)
sf_leptonID_and_Iso_loose_2leptons(lepton1_type, lepton1_pt, lepton1_eta, lepton2_type, lepton2_pt, lepton2_eta, L) ==
    LET lepton1_sf ==
            IF lepton1_type = kElectron
            THEN sf_electronID_and_Iso_loose(lepton1_pt, lepton1_eta, L)
            ELSE IF lepton1_type = kMuon
            THEN sf_muonID_and_Iso_loose(lepton1_pt, lepton1_eta, L)
            ELSE AbortedSf(L)
        lepton2_sf ==
            IF lepton2_type = kElectron
            THEN sf_electronID_and_Iso_loose(lepton2_pt, lepton2_eta, lepton1_sf.luts)
            ELSE IF lepton2_type = kMuon
            THEN sf_muonID_and_Iso_loose(lepton2_pt, lepton2_eta, lepton1_sf.luts)
            ELSE AbortedSf(lepton1_sf.luts)
    IN IF lepton1_sf.abort THEN lepton1_sf
       ELSE IF lepton2_sf.abort THEN lepton2_sf
       ELSE ReturnedSf(Mul(lepton1_sf.val, lepton2_sf.val), lepton2_sf.luts)

\* mutant: the fakeable-to-loose factor is read from a table
sf_leptonID_and_Iso_fakeable_to_loose_1lepton_FromTable(lepton1_type, lepton1_pt, lepton1_eta, L) ==
    ReturnedSf(get_sf_from_TH2("electron.lut_convVeto", lepton1_pt, lepton1_eta),
               Loaded(L, "electron.lut_convVeto"))

\* sf_leptonID_and_Iso_fakeable_to_loose(int, double, double): return 1.
sf_leptonID_and_Iso_fakeable_to_loose_1lepton(lepton1_type, lepton1_pt, lepton1_eta, L) ==
    ReturnedSf(One, L)

\* sf_leptonID_and_Iso_fakeable_to_loose(int, double, double, int, double, double): return 1.
sf_leptonID_and_Iso_fakeable_to_loose_2leptons(lepton1_type, lepton1_pt, lepton1_eta, lepton2_type, lepton2_pt, lepton2_eta, L) ==
    ReturnedSf(One, L)

\* sf_leptonID_and_Iso_fakeable(int, double, double)
sf_leptonID_and_Iso_fakeable_1lepton(lepton1_type, lepton1_pt, lepton1_eta, L) ==
    LET sf_loose == sf_leptonID_and_Iso_loose_1lepton(lepton1_type, lepton1_pt, lepton1_eta, L)
        sf_fakeable_to_loose ==
            sf_leptonID_and_Iso_fakeable_to_loose_1lepton(
                lepton1_type, lepton1_pt, lepton1_eta, sf_loose.luts)
    IN IF sf_loose.abort THEN sf_loose
       ELSE ReturnedSf(Mul(sf_loose.val, sf_fakeable_to_loose.val), sf_fakeable_to_loose.luts)

\* sf_leptonID_and_Iso_fakeable(int, double, double, int, double, double)
sf_leptonID_and_Iso_fakeable_2leptons(lepton1_type, lepton1_pt, lepton1_eta, lepton2_type, lepton2_pt, lepton2_eta, L) ==
    LET sf_loose ==
            sf_leptonID_and_Iso_loose_2leptons(lepton1_type, lepton1_pt, lepton1_eta,
                                               lepton2_type, lepton2_pt, lepton2_eta, L)
        sf_fakeable_to_loose ==
            sf_leptonID_and_Iso_fakeable_to_loose_2leptons(
                lepton1_type, lepton1_pt, lepton1_eta,
                lepton2_type, lepton2_pt, lepton2_eta, sf_loose.luts)
    IN IF sf_loose.abort THEN sf_loose
       ELSE ReturnedSf(Mul(sf_loose.val, sf_fakeable_to_loose.val), sf_fakeable_to_loose.luts)

\* sf_leptonID_and_Iso_tight_to_loose(int, double, double)
sf_leptonID_and_Iso_tight_to_loose_1lepton(lepton1_type, lepton1_pt, lepton1_eta, L) ==
    IF lepton1_type = kElectron
    THEN sf_electronID_and_Iso_tight_to_loose(lepton1_pt, lepton1_eta, L)
    ELSE IF lepton1_type = kMuon
    THEN sf_muonID_and_Iso_tight_to_loose(lepton1_pt, lepton1_eta, L)
    ELSE AbortedSf(L)

\* sf_leptonID_and_Iso_tight_to_loose(int, double, double, int, double, double)
sf_leptonID_and_Iso_tight_to_loose_2leptons(lepton1_type, lepton1_pt, lepton1_eta, lepton2_type, lepton2_pt, lepton2_eta, L) ==
    LET lepton1_sf ==
            IF lepton1_type = kElectron
            THEN sf_electronID_and_Iso_tight_to_loose(lepton1_pt, lepton1_eta, L)
            ELSE IF lepton1_type = kMuon
            THEN sf_muonID_and_Iso_tight_to_loose(lepton1_pt, lepton1_eta, L)
            ELSE AbortedSf(L)
        lepton2_sf ==
            IF lepton2_type = kElectron
            THEN sf_electronID_and_Iso_tight_to_loose(lepton2_pt, lepton2_eta, lepton1_sf.luts)
            ELSE IF lepton2_type = kMuon
            THEN sf_muonID_and_Iso_tight_to_loose(lepton2_pt, lepton2_eta, lepton1_sf.luts)
            ELSE AbortedSf(lepton1_sf.luts)
    IN IF lepton1_sf.abort THEN lepton1_sf
       ELSE IF lepton2_sf.abort THEN lepton2_sf
       ELSE ReturnedSf(Mul(lepton1_sf.val, lepton2_sf.val), lepton2_sf.luts)

\* sf_leptonID_and_Iso_tight(int, double, double)
sf_leptonID_and_Iso_tight_1lepton(lepton1_type, lepton1_pt, lepton1_eta, L) ==
    LET sf_loose == sf_leptonID_and_Iso_loose_1lepton(lepton1_type, lepton1_pt, lepton1_eta, L)
        sf_tight_to_loose ==
            sf_leptonID_and_Iso_tight_to_loose_1lepton(
                lepton1_type, lepton1_pt, lepton1_eta, sf_loose.luts)
    IN IF sf_loose.abort THEN sf_loose
       ELSE IF sf_tight_to_loose.abort THEN sf_tight_to_loose
       ELSE ReturnedSf(Mul(sf_loose.val, sf_tight_to_loose.val), sf_tight_to_loose.luts)

\* sf_leptonID_and_Iso_tight(int, double, double, int, double, double)
sf_leptonID_and_Iso_tight_2leptons(lepton1_type, lepton1_pt, lepton1_eta, lepton2_type, lepton2_pt, lepton2_eta, L) ==
    LET sf_loose ==
            sf_leptonID_and_Iso_loose_2leptons(lepton1_type, lepton1_pt, lepton1_eta,
                                               lepton2_type, lepton2_pt, lepton2_eta, L)
        sf_tight_to_loose ==
            sf_leptonID_and_Iso_tight_to_loose_2leptons(
                lepton1_type, lepton1_pt, lepton1_eta,
                lepton2_type, lepton2_pt, lepton2_eta, sf_loose.luts)
    IN IF sf_loose.abort THEN sf_loose
       ELSE IF sf_tight_to_loose.abort THEN sf_tight_to_loose
       ELSE ReturnedSf(Mul(sf_loose.val, sf_tight_to_loose.val), sf_tight_to_loose.luts)

\* the lepton types, pt and eta values the calls are drawn from: kElectron, kMuon
\* and a type that is neither; the edges of every pt and |eta| bin, and points inside
LeptonTypes == {kElectron, kMuon, 2}
PtVals == {9999, 10000, 20000, 24999, 25000, 30000, 40000, 40001, 45000, 49999, 50000, 60000}
EtaVals == {-3000, -2500, -2499, -2000, -1479, -1478, -1200, -1000, 0,
            1000, 1199, 1200, 1478, 1479, 2000, 2499, 2500, 3000}
Leptons == [type : LeptonTypes, pt : PtVals, eta : EtaVals]
\* the leptons the two-lepton forms are called with
PairPtVals == {20000, 30000, 40000, 40001, 45000}
PairEtaVals == {-1479, 1199, 1200, 1478, 1479}
PairLeptons == [type : LeptonTypes, pt : PairPtVals, eta : PairEtaVals]

OneLeptonFns ==
    { "prob_chargeMisId", "sf_triggerEff_1lepton",
      "sf_leptonID_and_Iso_loose_1lepton", "sf_leptonID_and_Iso_fakeable_to_loose_1lepton",
      "sf_leptonID_and_Iso_fakeable_1lepton", "sf_leptonID_and_Iso_tight_to_loose_1lepton",
      "sf_leptonID_and_Iso_tight_1lepton" }
TwoLeptonFns ==
    { "sf_triggerEff_2leptons",
      "sf_leptonID_and_Iso_loose_2leptons", "sf_leptonID_and_Iso_fakeable_to_loose_2leptons",
      "sf_leptonID_and_Iso_fakeable_2leptons", "sf_leptonID_and_Iso_tight_to_loose_2leptons",
      "sf_leptonID_and_Iso_tight_2leptons" }

\* the per-kind functions take (pt, eta) only: PerKindFns[kind] is the function of
\* that kind, called with the pt and eta of a lepton of the kind
PerKindFns == (kElectron :> "sf_electronID_and_Iso_tight") @@ (kMuon :> "sf_muonID_and_Iso_tight")

\* the process has made no call yet: every static table pointer is null
InitCorr ==
    /\ pc = "call"
    /\ \/ fn \in OneLeptonFns /\ lepton1 \in Leptons /\ lepton2 = NoLepton
       \/ fn \in TwoLeptonFns /\ lepton1 \in PairLeptons /\ lepton2 \in PairLeptons
       \/ \E kind \in DOMAIN PerKindFns :
             /\ fn = PerKindFns[kind]
             /\ lepton1 \in {l \in Leptons : l.type = kind}
             /\ lepton2 = NoLepton
    /\ result = 0 /\ sf = One /\ luts = {}
    /\ passed = FALSE
    /\ IdleSelector /\ IdleHadTau /\ IdleMuon /\ IdleLepton /\ IdleReader /\ IdleCache

Init == InitCorr

\* a call of a function returning a literal: r is what the function does
FinishLiteral(r) ==
    /\ pc' = IF r.abort THEN "abort" ELSE "done"
    /\ result' = r.val
    /\ UNCHANGED <<fn, particles, store, selector_, selParticles, hadTau, muon, muonSel,
                   idxBin, passed, lepton1, lepton2, sf, luts,
                   lepVars, readerVars, cacheVars>>

\* a call of a function returning a product of table entries
FinishSf(r) ==
    /\ pc' = IF r.abort THEN "abort" ELSE "done"
    /\ sf' = r.val
    /\ luts' = r.luts
    /\ UNCHANGED <<fn, particles, store, selector_, selParticles, hadTau, muon, muonSel,
                   idxBin, passed, lepton1, lepton2, result,
                   lepVars, readerVars, cacheVars>>

Call_prob_chargeMisId ==
    /\ pc = "call" /\ fn = "prob_chargeMisId"
    /\ FinishLiteral(prob_chargeMisId(lepton1.type, lepton1.pt, lepton1.eta))

Call_sf_electronID_and_Iso_tight ==
    /\ pc = "call" /\ fn = "sf_electronID_and_Iso_tight"
    /\ FinishSf(sf_electronID_and_Iso_tight(lepton1.pt, lepton1.eta, luts))

Call_sf_muonID_and_Iso_tight ==
    /\ pc = "call" /\ fn = "sf_muonID_and_Iso_tight"
    /\ FinishSf(sf_muonID_and_Iso_tight(lepton1.pt, lepton1.eta, luts))

Call_sf_triggerEff_1lepton ==
    /\ pc = "call" /\ fn = "sf_triggerEff_1lepton"
    /\ FinishLiteral(sf_triggerEff_1lepton(lepton1.type, lepton1.pt, lepton1.eta))

Call_sf_triggerEff_2leptons ==
    /\ pc = "call" /\ fn = "sf_triggerEff_2leptons"
    /\ FinishLiteral(sf_triggerEff_2leptons(lepton1.type, lepton1.pt, lepton1.eta,
                                            lepton2.type, lepton2.pt, lepton2.eta))

Call_sf_leptonID_and_Iso_loose_1lepton ==
    /\ pc = "call" /\ fn = "sf_leptonID_and_Iso_loose_1lepton"
    /\ FinishSf(sf_leptonID_and_Iso_loose_1lepton(lepton1.type, lepton1.pt, lepton1.eta, luts))

Call_sf_leptonID_and_Iso_fakeable_to_loose_1lepton ==
    /\ pc = "call" /\ fn = "sf_leptonID_and_Iso_fakeable_to_loose_1lepton"
    /\ FinishSf(sf_leptonID_and_Iso_fakeable_to_loose_1lepton(lepton1.type, lepton1.pt, lepton1.eta, luts))

Call_sf_leptonID_and_Iso_fakeable_1lepton ==
    /\ pc = "call" /\ fn = "sf_leptonID_and_Iso_fakeable_1lepton"
    /\ FinishSf(sf_leptonID_and_Iso_fakeable_1lepton(lepton1.type, lepton1.pt, lepton1.eta, luts))

Call_sf_leptonID_and_Iso_tight_to_loose_1lepton ==
    /\ pc = "call" /\ fn = "sf_leptonID_and_Iso_tight_to_loose_1lepton"
    /\ FinishSf(sf_leptonID_and_Iso_tight_to_loose_1lepton(lepton1.type, lepton1.pt, lepton1.eta, luts))

Call_sf_leptonID_and_Iso_tight_1lepton ==
    /\ pc = "call" /\ fn = "sf_leptonID_and_Iso_tight_1lepton"
    /\ FinishSf(sf_leptonID_and_Iso_tight_1lepton(lepton1.type, lepton1.pt, lepton1.eta, luts))

Call_sf_leptonID_and_Iso_loose_2leptons ==
    /\ pc = "call" /\ fn = "sf_leptonID_and_Iso_loose_2leptons"
    /\ FinishSf(sf_leptonID_and_Iso_loose_2leptons(lepton1.type, lepton1.pt, lepton1.eta,
                                                  lepton2.type, lepton2.pt, lepton2.eta, luts))

Call_sf_leptonID_and_Iso_fakeable_to_loose_2leptons ==
    /\ pc = "call" /\ fn = "sf_leptonID_and_Iso_fakeable_to_loose_2leptons"
    /\ FinishSf(sf_leptonID_and_Iso_fakeable_to_loose_2leptons(lepton1.type, lepton1.pt, lepton1.eta,
                                                              lepton2.type, lepton2.pt, lepton2.eta, luts))

Call_sf_leptonID_and_Iso_fakeable_2leptons ==
    /\ pc = "call" /\ fn = "sf_leptonID_and_Iso_fakeable_2leptons"
    /\ FinishSf(sf_leptonID_and_Iso_fakeable_2leptons(lepton1.type, lepton1.pt, lepton1.eta,
                                                     lepton2.type, lepton2.pt, lepton2.eta, luts))

Call_sf_leptonID_and_Iso_tight_to_loose_2leptons ==
    /\ pc = "call" /\ fn = "sf_leptonID_and_Iso_tight_to_loose_2leptons"
    /\ FinishSf(sf_leptonID_and_Iso_tight_to_loose_2leptons(lepton1.type, lepton1.pt, lepton1.eta,
                                                           lepton2.type, lepton2.pt, lepton2.eta, luts))

Call_sf_leptonID_and_Iso_tight_2leptons ==
    /\ pc = "call" /\ fn = "sf_leptonID_and_Iso_tight_2leptons"
    /\ FinishSf(sf_leptonID_and_Iso_tight_2leptons(lepton1.type, lepton1.pt, lepton1.eta,
                                                  lepton2.type, lepton2.pt, lepton2.eta, luts))

Next ==
    \/ Call_prob_chargeMisId
    \/ Call_sf_electronID_and_Iso_tight
    \/ Call_sf_muonID_and_Iso_tight
    \/ Call_sf_triggerEff_1lepton
    \/ Call_sf_triggerEff_2leptons
    \/ Call_sf_leptonID_and_Iso_loose_1lepton
    \/ Call_sf_leptonID_and_Iso_fakeable_to_loose_1lepton
    \/ Call_sf_leptonID_and_Iso_fakeable_1lepton
    \/ Call_sf_leptonID_and_Iso_tight_to_loose_1lepton
    \/ Call_sf_leptonID_and_Iso_tight_1lepton
    \/ Call_sf_leptonID_and_Iso_loose_2leptons
    \/ Call_sf_leptonID_and_Iso_fakeable_to_loose_2leptons
    \/ Call_sf_leptonID_and_Iso_fakeable_2leptons
    \/ Call_sf_leptonID_and_Iso_tight_to_loose_2leptons
    \/ Call_sf_leptonID_and_Iso_tight_2leptons

Spec == Init /\ [][Next]_vars

--------------------------------------------------------------------------
(* Properties of the correction engine                                    *)

\* the tabulated charge-misidentification bins: |eta| in [etaLo, etaHi), pt in
\* [ptLo, ptHi) (ptHi = -1: no upper edge), and the probability (units of 1/10000)
ChargeMisIdBins ==
    { [etaLo |-> 0, etaHi |-> 1479, ptLo |-> 10000, ptHi |-> 25000, prob |-> 301],
      [etaLo |-> 0, etaHi |-> 1479, ptLo |-> 25000, ptHi |-> 50000, prob |-> 287],
      [etaLo |-> 0, etaHi |-> 1479, ptLo |-> 50000, ptHi |-> -1, prob |-> 293],
      [etaLo |-> 1479, etaHi |-> 2500, ptLo |-> 10000, ptHi |-> 25000, prob |-> 1728],
      [etaLo |-> 1479, etaHi |-> 2500, ptLo |-> 25000, ptHi |-> 50000, prob |-> 1974],
      [etaLo |-> 1479, etaHi |-> 2500, ptLo |-> 50000, ptHi |-> -1, prob |-> 3457] }

InChargeMisIdBin(b, l) ==
    /\ Abs(l.eta) >= b.etaLo /\ Abs(l.eta) < b.etaHi
    /\ l.pt >= b.ptLo /\ (b.ptHi = -1 \/ l.pt < b.ptHi)

BinsOf(l) == { b \in ChargeMisIdBins : InChargeMisIdBin(b, l) }

\* C6: for an electron prob_chargeMisId returns the literal of its (|eta|, pt) bin;
\* no electron is in two bins, and every electron with |eta| < 2.5 and pt >= 10 is
\* in one; for a muon it returns 1.0 whatever pt and eta are.
C6_ChargeMisIdBinLiteral ==
    (pc # "call" /\ fn = "prob_chargeMisId") =>
        /\ lepton1.type = kElectron =>
             /\ Cardinality(BinsOf(lepton1)) <= 1
             /\ (Abs(lepton1.eta) < 2500 /\ lepton1.pt >= 10000)
                    => Cardinality(BinsOf(lepton1)) = 1
             /\ \A b \in BinsOf(lepton1) : pc = "done" /\ result = b.prob
        /\ lepton1.type = kMuon => (pc = "done" /\ result = 10000)

\* an electron on the lower edges of the endcap and of the top pt bin
C6_Witness ==
    /\ pc = "done" /\ fn = "prob_chargeMisId"
    /\ lepton1 = [type |-> kElectron, pt |-> 50000, eta |-> -1479]
    /\ result = 3457

\* C7: for an electron with |eta| >= 2.5, or with pt < 10, prob_chargeMisId
\* returns the default 1.0 and does not fail.
C7_OutOfRangeElectronDefault ==
    (pc # "call" /\ fn = "prob_chargeMisId" /\ lepton1.type = kElectron
       /\ (Abs(lepton1.eta) >= 2500 \/ lepton1.pt < 10000)) =>
        (pc = "done" /\ result = 10000)

\* an electron inside the eta range, just below the lowest pt edge
C7_Witness ==
    /\ pc = "done" /\ fn = "prob_chargeMisId"
    /\ lepton1 = [type |-> kElectron, pt |-> 9999, eta |-> 1478]
    /\ result = 10000

Unrecognized(l) == l.type # kElectron /\ l.type # kMuon

\* the call was given a lepton type that is neither kElectron nor kMuon
UnrecognizedKind ==
    \/ Unrecognized(lepton1)
    \/ fn \in TwoLeptonFns /\ Unrecognized(lepton2)

\* the functions that return 1. for any lepton type
UnitFallbackFns ==
    { "sf_triggerEff_1lepton", "sf_triggerEff_2leptons",
      "sf_leptonID_and_Iso_fakeable_to_loose_1lepton",
      "sf_leptonID_and_Iso_fakeable_to_loose_2leptons" }

\* C8 as stated: every function of the engine that takes a lepton type ends in an
\* assertion failure, and returns nothing, when a type is neither electron nor muon.
C8_EveryFunctionAsserts ==
    (pc # "call" /\ fn \in OneLeptonFns \cup TwoLeptonFns /\ UnrecognizedKind) =>
        pc = "abort"

\* C8 (amended): prob_chargeMisId and both forms of sf_leptonID_and_Iso_loose,
\* _fakeable, _tight_to_loose and _tight end in an assertion failure when a lepton
\* type is neither electron nor muon; both forms of sf_triggerEff and of
\* sf_leptonID_and_Iso_fakeable_to_loose return 1.0 for such a type.
C8_AssertOrUnitFallback ==
    (pc # "call" /\ fn \in OneLeptonFns \cup TwoLeptonFns /\ UnrecognizedKind) =>
        IF fn \in {"sf_triggerEff_1lepton", "sf_triggerEff_2leptons"}
        THEN pc = "done" /\ result = 10000
        ELSE IF fn \in UnitFallbackFns
        THEN pc = "done" /\ sf = One
        ELSE pc = "abort"

\* the two-lepton tight scale factor was asked for an electron and an unknown type
C8_Witness ==
    /\ pc = "abort" /\ fn = "sf_leptonID_and_Iso_tight_2leptons"
    /\ lepton1.type = kElectron /\ Unrecognized(lepton2)

\* C9: the one-lepton sf_triggerEff is 0.99 for an electron with pt above 40 and
\* 0.95 for any other electron (pt = 40 included), 0.98 for a muon, 1.00 for any
\* other type, whatever eta is.
C9_TriggerEffOneLepton ==
    (pc # "call" /\ fn = "sf_triggerEff_1lepton") =>
        /\ pc = "done"
        /\ result \in {9500, 9800, 9900, 10000}
        /\ (lepton1.type = kElectron /\ lepton1.pt > 40000) => result = 9900
        /\ (lepton1.type = kElectron /\ lepton1.pt <= 40000) => result = 9500
        /\ lepton1.type = kMuon => result = 9800
        /\ Unrecognized(lepton1) => result = 10000

\* an electron with pt exactly 40
C9_Witness ==
    /\ pc = "done" /\ fn = "sf_triggerEff_1lepton"
    /\ lepton1.type = kElectron /\ lepton1.pt = 40000 /\ lepton1.eta = 2500
    /\ result = 9500

\* C10: the two-lepton sf_triggerEff is, for two electrons, 0.99 when the larger pt
\* is above 40 and 0.95 otherwise, which is the one-lepton electron factor at the
\* larger pt; 0.98 for two muons; 1.00 for an electron and a muon in either order;
\* and the same when the two leptons are swapped.
C10_TriggerEffTwoLeptons ==
    (pc # "call" /\ fn = "sf_triggerEff_2leptons") =>
        LET bothE == lepton1.type = kElectron /\ lepton2.type = kElectron
            larger == IF lepton1.pt >= lepton2.pt THEN lepton1.pt ELSE lepton2.pt
        IN /\ pc = "done"
           /\ (bothE /\ (lepton1.pt > 40000 \/ lepton2.pt > 40000)) => result = 9900
           /\ (bothE /\ lepton1.pt <= 40000 /\ lepton2.pt <= 40000) => result = 9500
           /\ bothE => result = sf_triggerEff_1lepton(kElectron, larger, 0).val
           /\ (lepton1.type = kMuon /\ lepton2.type = kMuon) => result = 9800
           /\ ({lepton1.type, lepton2.type} = {kElectron, kMuon}) => result = 10000
           /\ result = sf_triggerEff_2leptons(lepton2.type, lepton2.pt, lepton2.eta,
                                              lepton1.type, lepton1.pt, lepton1.eta).val

\* two electrons of which only the second is above 40
C10_Witness ==
    /\ pc = "done" /\ fn = "sf_triggerEff_2leptons"
    /\ lepton1.type = kElectron /\ lepton2.type = kElectron
    /\ lepton1.pt = 30000 /\ lepton2.pt = 45000
    /\ result = 9900

\* a lepton type the functions recognize, and the leptons of the call having one
Recognized(l) == l.type \in {kElectron, kMuon}
RecognizedKinds ==
    /\ Recognized(lepton1)
    /\ fn \in TwoLeptonFns => Recognized(lepton2)

\* the value the lepton-level one-lepton function f returns for lepton l, called
\* with no table loaded
LooseOf(l) == sf_leptonID_and_Iso_loose_1lepton(l.type, l.pt, l.eta, {}).val
TightToLooseOf(l) == sf_leptonID_and_Iso_tight_to_loose_1lepton(l.type, l.pt, l.eta, {}).val
LooseOfPair(l1, l2) ==
    sf_leptonID_and_Iso_loose_2leptons(l1.type, l1.pt, l1.eta, l2.type, l2.pt, l2.eta, {}).val
TightToLooseOfPair(l1, l2) ==
    sf_leptonID_and_Iso_tight_to_loose_2leptons(l1.type, l1.pt, l1.eta,
                                                l2.type, l2.pt, l2.eta, {}).val

\* C11: for an electron or a muon and every (pt, eta), the tight scale factor is
\* the loose scale factor times the tight-to-loose scale factor of the same
\* arguments and nothing else: in the two per-kind functions, in the one-lepton
\* form and in the two-lepton form.
C11_TightIsLooseTimesTightToLoose ==
    (pc # "call" /\ RecognizedKinds) =>
        /\ fn = "sf_electronID_and_Iso_tight" =>
              /\ pc = "done"
              /\ sf = Mul(sf_electronID_and_Iso_loose(lepton1.pt, lepton1.eta, {}).val,
                          sf_electronID_and_Iso_tight_to_loose(lepton1.pt, lepton1.eta, {}).val)
        /\ fn = "sf_muonID_and_Iso_tight" =>
              /\ pc = "done"
              /\ sf = Mul(sf_muonID_and_Iso_loose(lepton1.pt, lepton1.eta, {}).val,
                          sf_muonID_and_Iso_tight_to_loose(lepton1.pt, lepton1.eta, {}).val)
        /\ fn = "sf_leptonID_and_Iso_tight_1lepton" =>
              /\ pc = "done"
              /\ sf = Mul(LooseOf(lepton1), TightToLooseOf(lepton1))
        /\ fn = "sf_leptonID_and_Iso_tight_2leptons" =>
              /\ pc = "done"
              /\ sf = Mul(LooseOfPair(lepton1, lepton2), TightToLooseOfPair(lepton1, lepton2))

\* the per-kind electron function and the two-lepton form have each returned a
\* tight scale factor
C11_Witness ==
    /\ pc = "done"
    /\ \/ fn = "sf_electronID_and_Iso_tight" /\ Abs(lepton1.eta) = 1479
       \/ /\ fn = "sf_leptonID_and_Iso_tight_2leptons"
          /\ lepton1.type = kElectron /\ lepton2.type = kMuon
    /\ sf # One

\* C12: the fakeable-to-loose scale factor is 1.0 for every input of the one- and
\* of the two-lepton form, and for every electron or muon input the fakeable
\* scale factor is the loose scale factor of the same arguments.
C12_FakeableIsLoose ==
    pc # "call" =>
        /\ fn \in { "sf_leptonID_and_Iso_fakeable_to_loose_1lepton",
                    "sf_leptonID_and_Iso_fakeable_to_loose_2leptons" } =>
              pc = "done" /\ sf = One
        /\ (fn = "sf_leptonID_and_Iso_fakeable_1lepton" /\ RecognizedKinds) =>
              pc = "done" /\ sf = LooseOf(lepton1)
        /\ (fn = "sf_leptonID_and_Iso_fakeable_2leptons" /\ RecognizedKinds) =>
              pc = "done" /\ sf = LooseOfPair(lepton1, lepton2)

\* the one-lepton fakeable scale factor of a muon has been returned
C12_Witness ==
    /\ pc = "done" /\ fn = "sf_leptonID_and_Iso_fakeable_1lepton"
    /\ lepton1.type = kMuon /\ sf # One

\* C19: for two leptons that are each an electron or a muon, the two-lepton loose
\* scale factor is the product of the one-lepton loose scale factors of the two
\* leptons, the two-lepton tight-to-loose scale factor is the product of the
\* one-lepton tight-to-loose scale factors, and either is the value the function
\* returns for the two leptons swapped.
C19_PairIsProductAndSymmetric ==
    (pc # "call" /\ RecognizedKinds) =>
        /\ fn = "sf_leptonID_and_Iso_loose_2leptons" =>
              /\ pc = "done"
              /\ sf = Mul(LooseOf(lepton1), LooseOf(lepton2))
              /\ sf = LooseOfPair(lepton2, lepton1)
        /\ fn = "sf_leptonID_and_Iso_tight_to_loose_2leptons" =>
              /\ pc = "done"
              /\ sf = Mul(TightToLooseOf(lepton1), TightToLooseOf(lepton2))
              /\ sf = TightToLooseOfPair(lepton2, lepton1)

\* the two-lepton loose scale factor of an electron and a muon of different pt
C19_Witness ==
    /\ pc = "done" /\ fn = "sf_leptonID_and_Iso_loose_2leptons"
    /\ lepton1.type = kElectron /\ lepton2.type = kMuon
    /\ lepton1.pt # lepton2.pt /\ lepton1.eta # lepton2.eta

\* the tables a scale factor is a product of entries of
RECURSIVE LutsOf(_)
LutsOf(v) ==
    IF v = One THEN {}
    ELSE IF "lut" \in DOMAIN v THEN {v.lut}
    ELSE UNION {LutsOf(x) : x \in v.mul}

BarrelTables ==
    {"electron.lut_id_tight_barrel", "muon.lut_iso_barrel", "muon.lut_id_tight_barrel"}
EndcapTables ==
    {"electron.lut_id_tight_endcap", "muon.lut_iso_endcap", "muon.lut_id_tight_endcap"}
\* the |eta| boundary of a kind: 1.479 for electrons, 1.2 for muons
EtaBoundary(type) == IF type = kElectron THEN 1479 ELSE 1200
\* a returned call of the one-lepton loose or tight-to-loose stage
StageCallReturned ==
    /\ pc # "call" /\ RecognizedKinds
    /\ fn \in {"sf_leptonID_and_Iso_loose_1lepton", "sf_leptonID_and_Iso_tight_to_loose_1lepton"}
\* the call read exactly one table of the barrel/endcap pairs: a barrel table
\* when |eta| is strictly below the boundary of the kind, an endcap table otherwise
OneOfPairByEta ==
    LET used == LutsOf(sf) \cap (BarrelTables \cup EndcapTables)
    IN /\ Cardinality(used) = 1
       /\ IF Abs(lepton1.eta) < EtaBoundary(lepton1.type)
          THEN used \subseteq BarrelTables
          ELSE used \subseteq EndcapTables

\* C20 as stated: in the loose and in the tight-to-loose stage, for electrons
\* (boundary 1.479) and for muons (boundary 1.2), the table is chosen by |eta|:
\* barrel strictly below the boundary, endcap at or above it, exactly one of the
\* two tables read per call.
C20_SplitInEveryStage ==
    StageCallReturned => (pc = "done" /\ OneOfPairByEta)

\* C20: the split holds of the electron tight-to-loose stage (boundary 1.479)
\* and of the muon loose and tight-to-loose stages (boundary 1.2): exactly one
\* table of the pair is read, the barrel one strictly below the boundary and the
\* endcap one at or above it.  The electron loose stage has no barrel/endcap
\* pair: it reads its two (pt, eta) tables whatever eta is.
C20_SplitWhereTablesArePaired ==
    StageCallReturned =>
        /\ pc = "done"
        /\ IF lepton1.type = kElectron /\ fn = "sf_leptonID_and_Iso_loose_1lepton"
           THEN LutsOf(sf) = {"electron.lut_id_loose", "electron.lut_iso"}
           ELSE OneOfPairByEta

\* an electron at |eta| = 1.479 has been given the endcap tight-to-loose table,
\* or a muon at |eta| = 1.2 the endcap isolation table
C20_Witness ==
    /\ pc = "done"
    /\ \/ /\ fn = "sf_leptonID_and_Iso_tight_to_loose_1lepton"
          /\ lepton1.type = kElectron /\ Abs(lepton1.eta) = 1479
          /\ "electron.lut_id_tight_endcap" \in LutsOf(sf)
       \/ /\ fn = "sf_leptonID_and_Iso_loose_1lepton"
          /\ lepton1.type = kMuon /\ Abs(lepton1.eta) = 1200
          /\ "muon.lut_iso_endcap" \in LutsOf(sf)

--------------------------------------------------------------------------
(* The bin-dependent cut tables of RecoMuonSelectorFakeable               *)

\* a muon passes the loose cut on the lepton MVA value
PassesMvaCut(m) == m.mvaRawTTH_ >= At(binning_mvaTTH_, 0)
\* in a table of the format 'muon fails / passes' the entry at index 0 is the one
\* of the muons that fail, the entry at index 1 the one of the muons that pass

\* C17: the tables min_jetPtRatio_ and max_jetBtagCSV_ are in the format 'muon
\* fails / passes loose cut on lepton MVA value': a muon that fails the
\* lepton-MVA threshold is judged by the first entries (0.30, 0.605), a muon
\* that passes it by the second entries (-1000, 0.89).
C17_TablesInFailsPassesFormat ==
    (pc = "done" /\ fn = "RecoMuonSelectorFakeable" /\ idxBin # NoBin) =>
        IF PassesMvaCut(muon)
        THEN idxBin = 1 /\ (passed <=> MuonBinCuts(muon, 1))
        ELSE idxBin = 0 /\ (passed <=> MuonBinCuts(muon, 0))

\* C18: an evaluation that reaches the bin-dependent cuts has computed a bin
\* index that is 0 or 1, a position of both two-entry tables, before it reads
\* them; the range check on the index never fails, so no evaluation is aborted
\* and no table is read out of bounds.
C18_BinIndexInRange ==
    fn = "RecoMuonSelectorFakeable" =>
        /\ pc # "abort"
        /\ (pc = "done" /\ MuonBaseCuts(muon, muonSel)) =>
              /\ idxBin \in 0..1
              /\ idxBin + 1 \in DOMAIN min_jetPtRatio_
              /\ idxBin + 1 \in DOMAIN max_jetBtagCSV_
        /\ (pc = "done" /\ ~MuonBaseCuts(muon, muonSel)) => idxBin = NoBin

\* a muon below the MVA threshold was judged by the second entries and selected
C18_Witness ==
    /\ pc = "done" /\ fn = "RecoMuonSelectorFakeable"
    /\ muon.mvaRawTTH_ < At(binning_mvaTTH_, 0)
    /\ idxBin = 1 /\ passed
    /\ muon.jetPtRatio_ < At(min_jetPtRatio_, 0)

--------------------------------------------------------------------------
(* RecoLepton, RecoMuon and GenLepton: the kind of a lepton and the charge *)
(* of a generator-level lepton                                             *)

\* Int_t is a 32-bit signed integer
IntMax == 2147483647
IntMin == -IntMax - 1
\* the PDG ids -MaxPdg..MaxPdg are drawn, and the two ends of Int_t
MaxPdg == 16
PdgIds == (-MaxPdg..MaxPdg) \cup {IntMin, IntMax}

\* -a/b of two ints: the quotient truncated towards zero
CDiv(a, b) ==
    IF (a < 0) = (b < 0) THEN Abs(a) \div Abs(b) ELSE -(Abs(a) \div Abs(b))

\* std::abs(x) of an Int_t: the values a build leaves.  std::abs(INT_MIN)
\* overflows (undefined); the negation wraps to INT_MIN.
StdAbs(x) == IF x = IntMin THEN {IntMin} ELSE {Abs(x)}

\* RecoLepton::is_electron(): return std::abs(pdg_id) == 11
RecoLepton_is_electron(l) == {a = 11 : a \in StdAbs(l.pdg_id)}

\* mutant: whatever is not an electron is a muon
RecoLepton_is_muon_NotElectron(l) == {a # 11 : a \in StdAbs(l.pdg_id)}

\* RecoLepton::is_muon(): return std::abs(pdg_id) == 13
RecoLepton_is_muon(l) == {a = 13 : a \in StdAbs(l.pdg_id)}

\* RecoMuon::is_electron() const { return false; }
RecoMuon_is_electron(l) == {FALSE}
\* RecoMuon::is_muon() const { return true; }
RecoMuon_is_muon(l) == {TRUE}

\* how the body of the GenLepton constructor ends: with a trap, or with a charge
Trapped == [trap |-> TRUE, charge_ |-> 0]
Charged(c) == [trap |-> FALSE, charge_ |-> c]

\* charge_ = -pdgId/std::abs(pdgId).  pdgId = 0 divides by zero (undefined): the
\* integer division traps or leaves 0, and where std::abs is the double overload
\* of <cmath> the quotient is NaN, whose conversion to an integer leaves INT_MIN.
\* pdgId = INT_MIN overflows in -pdgId (undefined): the negation wraps to
\* INT_MIN, which divided by std::abs(INT_MIN) is 1 (int overload, INT_MIN) or
\* -1 (double overload, 2147483648.).
GenLepton_charge(pdgId) ==
    IF pdgId = 0 THEN {Trapped, Charged(0), Charged(IntMin)}
    ELSE IF pdgId = IntMin THEN {Charged(1), Charged(-1)}
    ELSE {Charged(CDiv(-pdgId, a)) : a \in StdAbs(pdgId)}

LeptonClasses == {"RecoLepton", "RecoMuon", "GenLepton"}

\* a constructor is about to run with the PDG id it is given
InitLepton ==
    /\ pc = "call" /\ fn \in LeptonClasses
    /\ \E p \in PdgIds : lepton = [class |-> fn, pdg_id |-> p, charge_ |-> 0]
    /\ answers = << >>
    /\ passed = FALSE
    /\ IdleSelector /\ IdleHadTau /\ IdleMuon /\ IdleCorr /\ IdleReader /\ IdleCache

LeptonUnchanged ==
    UNCHANGED <<fn, particles, store, selector_, selParticles, hadTau, muon, muonSel,
                idxBin, passed, lepton1, lepton2, result, sf, luts, readerVars, cacheVars>>

\* RecoLepton::RecoLepton(..., _pdg_id, ...): pdg_id(_pdg_id)
New_RecoLepton ==
    /\ pc = "call" /\ fn = "RecoLepton"
    /\ pc' = "live"
    /\ UNCHANGED lepVars
    /\ LeptonUnchanged

\* RecoMuon::RecoMuon(..., pdgId, ...)
New_RecoMuon ==
    /\ pc = "call" /\ fn = "RecoMuon"
    /\ pc' = "live"
    /\ UNCHANGED lepVars
    /\ LeptonUnchanged

\* GenLepton::GenLepton(pt, eta, phi, mass, pdgId)
New_GenLepton ==
    /\ pc = "call" /\ fn = "GenLepton"
    /\ \E o \in GenLepton_charge(lepton.pdg_id) :
          /\ pc' = IF o.trap THEN "abort" ELSE "live"
          /\ lepton' = [lepton EXCEPT !.charge_ = o.charge_]
    /\ UNCHANGED answers
    /\ LeptonUnchanged

\* a call of method m of the constructed object that returns one of the values vs
CallKindMethod(class, m, vs) ==
    /\ pc = "live" /\ lepton.class = class
    /\ m \notin DOMAIN answers
    /\ \E v \in vs : answers' = answers @@ (m :> v)
    /\ UNCHANGED <<pc, lepton>>
    /\ LeptonUnchanged

Call_RecoLepton_is_electron ==
    CallKindMethod("RecoLepton", "is_electron", RecoLepton_is_electron(lepton))
Call_RecoLepton_is_muon ==
    CallKindMethod("RecoLepton", "is_muon", RecoLepton_is_muon(lepton))
Call_RecoMuon_is_electron ==
    CallKindMethod("RecoMuon", "is_electron", RecoMuon_is_electron(lepton))
Call_RecoMuon_is_muon ==
    CallKindMethod("RecoMuon", "is_muon", RecoMuon_is_muon(lepton))

NextLepton ==
    \/ New_RecoLepton
    \/ New_RecoMuon
    \/ New_GenLepton
    \/ Call_RecoLepton_is_electron
    \/ Call_RecoLepton_is_muon
    \/ Call_RecoMuon_is_electron
    \/ Call_RecoMuon_is_muon

SpecLepton == InitLepton /\ [][NextLepton]_vars

\* both methods of a constructed lepton have answered
KindAnswered ==
    /\ lepton # << >> /\ lepton.class \in {"RecoLepton", "RecoMuon"}
    /\ DOMAIN answers = {"is_electron", "is_muon"}

\* C13 as stated: for every constructed lepton, a RecoLepton of any stored pdg_id
\* or a RecoMuon, is_electron() and is_muon() are never both true and exactly
\* one of them is true.
C13_ExactlyOneKind ==
    KindAnswered =>
        /\ ~(answers["is_electron"] /\ answers["is_muon"])
        /\ answers["is_electron"] \/ answers["is_muon"]

\* C13: is_electron() and is_muon() are never both true.  A RecoMuon answers
\* is_muon() = true and is_electron() = false whatever its PDG id.  A RecoLepton
\* answers is_electron() = true iff pdg_id is 11 or -11 and is_muon() = true iff
\* pdg_id is 13 or -13: exactly one is true for these four ids, none for any other.
C13_KindByPdgId ==
    KindAnswered =>
        /\ ~(answers["is_electron"] /\ answers["is_muon"])
        /\ IF lepton.class = "RecoMuon"
           THEN answers["is_muon"] /\ ~answers["is_electron"]
           ELSE /\ answers["is_electron"] <=> lepton.pdg_id \in {11, -11}
                /\ answers["is_muon"] <=> lepton.pdg_id \in {13, -13}

\* a RecoLepton of PDG id -13 has answered: a muon, not an electron; and one of
\* PDG id 15 has answered: neither
C13_Witness ==
    /\ KindAnswered /\ lepton.class = "RecoLepton"
    /\ \/ lepton.pdg_id = -13 /\ answers["is_muon"] /\ ~answers["is_electron"]
       \/ lepton.pdg_id = 15 /\ ~answers["is_muon"] /\ ~answers["is_electron"]

\* -sign(pdgId)
MinusSign(pdgId) == IF pdgId > 0 THEN -1 ELSE IF pdgId < 0 THEN 1 ELSE 0

\* C16: for every integer pdgId the GenLepton constructor stores the charge
\* -sign(pdgId): -1 for pdgId > 0, +1 for pdgId < 0, 0 for pdgId = 0; the stored
\* charge is one of -1, 0, +1.
C16_ChargeIsMinusSign ==
    (fn = "GenLepton" /\ pc # "call") =>
        /\ pc = "live"
        /\ lepton.charge_ = MinusSign(lepton.pdg_id)
        /\ lepton.charge_ \in {-1, 0, 1}

--------------------------------------------------------------------------
(* RecoHadTauReader and RecoMuonReader: the static registry of a reader    *)
(* class, the life of its objects, and RecoHadTauReader::read()            *)

\* max_nHadTaus_(32)
max_nHadTaus_ == 32
\* leptonReader_->max_nLeptons_: the capacity of the arrays of RecoLeptonReader
max_nLeptons_ == 32
\* number of reader objects constructed in a run
MaxReaders == 3
\* number of them when the readers are RecoMuonReaders, each with its lepton reader
MaxMuonReaders == 2
ReaderIds == 1..MaxReaders
\* the null pointer: instances_[branchName_obj_] = 0
Null == 0
ReaderClasses == {"RecoHadTauReader", "RecoMuonReader"}
\* the names a reader is constructed with
ObjNames == {"TauGood", "selLeptons"}
NumNames == {"nTauGood", "nselLeptons"}
\* the counts an entry of the ntuple stores: the least ones, the capacity, one more
Counts == {0, 1, max_nHadTaus_, max_nHadTaus_ + 1}

\* the arrays read() builds a RecoHadTau from
HadTauArrays ==
    { "hadTau_pt_", "hadTau_eta_", "hadTau_phi_", "hadTau_mass_", "hadTau_charge_",
      "hadTau_dxy_", "hadTau_dz_", "hadTau_idDecayMode_", "hadTau_idDecayModeNewDMs_",
      "hadTau_idMVA_dR03_", "hadTau_rawMVA_dR03_", "hadTau_idMVA_dR05_",
      "hadTau_rawMVA_dR05_", "hadTau_idCombIso_dR03_", "hadTau_rawCombIso_dR03_",
      "hadTau_idCombIso_dR05_", "hadTau_rawCombIso_dR05_", "hadTau_idAgainstElec_",
      "hadTau_idAgainstMu_" }

\* storage no object has been constructed in yet
NoReader ==
    [ state |-> "unborn", branchName_num_ |-> "", branchName_obj_ |-> "",
      arrays |-> "null", loaded |-> FALSE, nHadTaus_ |-> 0 ]
\* an object whose constructor has returned: the array pointers are 0, nHadTaus_
\* is not initialized (loaded = FALSE: no entry of the tree has been read into it)
NewReader(branchName_num, branchName_obj) ==
    [ state |-> "live", branchName_num_ |-> branchName_num, branchName_obj_ |-> branchName_obj,
      arrays |-> "null", loaded |-> FALSE, nHadTaus_ |-> 0 ]

\* the storage of a destroyed object that no pointer refers to any more: nothing
\* of it can be read
DeadReader ==
    [ state |-> "dead", branchName_num_ |-> "", branchName_obj_ |-> "",
      arrays |-> "null", loaded |-> FALSE, nHadTaus_ |-> 0 ]

\* how the last operation ended; hadTaus is the vector read() returned
\* (of RecoHadTau, or of RecoMuon)
Ended(op, outcome, hadTaus) == [op |-> op, outcome |-> outcome, hadTaus |-> hadTaus]

\* a constructor or read() is recorded; the other operations return nothing
NothingReturned == Ended("", "", << >>)

\* the entries of the lepton table of an event: the per-event count and the
\* array pdgId_, given by the values that repeat along it
LeptonEntries ==
    { [nLeptons_ |-> 0, pdgId_ |-> <<11>>],
      [nLeptons_ |-> 3, pdgId_ |-> <<11, 13, -13>>],
      [nLeptons_ |-> max_nLeptons_, pdgId_ |-> <<-13, 11>>],
      [nLeptons_ |-> max_nLeptons_ + 1, pdgId_ |-> <<13>>] }

\* RecoLeptonReader::instances_[branchName_obj] is 0: owner is the RecoMuonReader
\* whose leptonReader_ the map points to
NoLeptonReader ==
    [ owner |-> Null, branchName_num_ |-> "", arrays |-> "null", loaded |-> FALSE,
      entry |-> [nLeptons_ |-> 0, pdgId_ |-> <<11>>] ]

\* leptonReader_ = new RecoLeptonReader(branchName_num_, branchName_obj_);
\* leptonReader_->setBranchNames(): the first lepton reader of a name is
\* registered, a later one with another branchName_num throws.  No destructor
\* deletes leptonReader_, so a registered lepton reader stays registered.
leptonReader_setBranchNames(this, branchName_num, branchName_obj) ==
    IF leptonInstances_[branchName_obj].owner = Null
    THEN [thrown |-> FALSE,
          instances_ |-> [leptonInstances_ EXCEPT ![branchName_obj] =
                             [NoLeptonReader EXCEPT !.owner = this,
                                                    !.branchName_num_ = branchName_num]]]
    ELSE [thrown |-> branchName_num # leptonInstances_[branchName_obj].branchName_num_,
          instances_ |-> leptonInstances_]

\* no object of the class exists: both static maps are empty (a map yields 0
\* for a key it does not hold)
InitReader ==
    /\ pc = "run" /\ fn = ""
    /\ readerClass \in ReaderClasses
    /\ readers = [r \in ReaderIds |-> NoReader]
    /\ numInstances_ = [obj \in ObjNames |-> 0]
    /\ instances_ = [obj \in ObjNames |-> Null]
    /\ leptonInstances_ = [obj \in ObjNames |-> NoLeptonReader]
    /\ ret = NothingReturned
    /\ passed = FALSE
    /\ IdleSelector /\ IdleHadTau /\ IdleMuon /\ IdleCorr /\ IdleLepton /\ IdleCache

ReaderUnchanged ==
    UNCHANGED <<fn, particles, store, selector_, selParticles, hadTau, muon, muonSel,
                idxBin, passed, lepton1, lepton2, result, sf, luts, lepVars, readerClass,
                cacheVars>>

\* the pointer g refers to an object that has been destroyed
Dangling(g) == g # Null /\ readers[g].state = "dead"

\* an operation dereferences a dangling pointer, or a null array: undefined
UndefinedBehaviour ==
    /\ pc' = "ub"
    /\ UNCHANGED <<readers, numInstances_, instances_, leptonInstances_, ret>>
    /\ ReaderUnchanged

\* mutant: the counter is incremented before the association is compared
setBranchNames_CountsFirst(this, branchName_num, branchName_obj) ==
    LET counted == [numInstances_ EXCEPT ![branchName_obj] = @ + 1]
    IN IF numInstances_[branchName_obj] = 0
       THEN [thrown |-> FALSE, numInstances_ |-> counted,
             instances_ |-> [instances_ EXCEPT ![branchName_obj] = this]]
       ELSE IF branchName_num # readers[instances_[branchName_obj]].branchName_num_
       THEN [thrown |-> TRUE, numInstances_ |-> counted, instances_ |-> instances_]
       ELSE [thrown |-> FALSE, numInstances_ |-> counted, instances_ |-> instances_]

\* setBranchNames() of the object this, constructed with the two names: whether
\* it throws, and the static maps it leaves
setBranchNames(this, branchName_num, branchName_obj) ==
    IF numInstances_[branchName_obj] = 0
    THEN [thrown |-> FALSE,
          numInstances_ |-> [numInstances_ EXCEPT ![branchName_obj] = @ + 1],
          instances_ |-> [instances_ EXCEPT ![branchName_obj] = this]]
    ELSE IF branchName_num # readers[instances_[branchName_obj]].branchName_num_
    THEN [thrown |-> TRUE, numInstances_ |-> numInstances_, instances_ |-> instances_]
    ELSE [thrown |-> FALSE,
          numInstances_ |-> [numInstances_ EXCEPT ![branchName_obj] = @ + 1],
          instances_ |-> instances_]

\* the storage the next object is constructed in
NextReader(r) ==
    /\ readers[r].state = "unborn" /\ \A q \in 1..(r - 1) : readers[q].state # "unborn"
    /\ readerClass = "RecoMuonReader" => r <= MaxMuonReaders

\* the constructor: RecoHadTauReader(branchName_num, branchName_obj) or
\* RecoMuonReader(branchName_num, branchName_obj).  An exception leaves no object.
New_Reader(r, branchName_num, branchName_obj) ==
    /\ pc = "run" /\ NextReader(r)
    /\ LET lepton_out == IF readerClass = "RecoMuonReader"
                         THEN leptonReader_setBranchNames(r, branchName_num, branchName_obj)
                         ELSE [thrown |-> FALSE, instances_ |-> leptonInstances_]
           out == setBranchNames(r, branchName_num, branchName_obj)
       IN IF lepton_out.thrown
          THEN /\ ret' = Ended("new", "thrown", << >>)
               /\ UNCHANGED <<readers, numInstances_, instances_, leptonInstances_>>
          ELSE /\ leptonInstances_' = lepton_out.instances_
               /\ numInstances_' = out.numInstances_
               /\ instances_' = out.instances_
               /\ readers' = IF out.thrown THEN readers
                             ELSE [readers EXCEPT ![r] =
                                      NewReader(branchName_num, branchName_obj)]
               /\ ret' = Ended("new", IF out.thrown THEN "thrown" ELSE "returned", << >>)
    /\ UNCHANGED pc
    /\ ReaderUnchanged

\* the constructor compares with instances_[branchName_obj_]->branchName_num_
\* of an object that has been destroyed
New_Reader_Dangling(r, branchName_obj) ==
    /\ pc = "run" /\ NextReader(r)
    /\ numInstances_[branchName_obj] # 0
    /\ Dangling(instances_[branchName_obj])
    /\ UndefinedBehaviour

\* the destructor of an object that is not the last of its name: the counter is
\* decremented and nothing else.  instances_ keeps pointing to the object if it
\* is the registered one.
Delete_Reader_Counted(r) ==
    LET obj == readers[r].branchName_obj_
        left == numInstances_[obj] - 1
    IN /\ pc = "run" /\ readers[r].state = "live"
       /\ left > 0
       /\ numInstances_' = [numInstances_ EXCEPT ![obj] = left]
       /\ readers' = [readers EXCEPT ![r] = IF instances_[obj] = r
                                             THEN [@ EXCEPT !.state = "dead"]
                                             ELSE DeadReader]
       /\ ret' = NothingReturned
       /\ UNCHANGED <<pc, instances_, leptonInstances_>>
       /\ ReaderUnchanged

\* the destructor of the last object of a name: the arrays of the registered
\* object are deleted and the name is unregistered.  The arrays come from new[]
\* and are released with delete, which frees them in the builds of this code.
Delete_Reader_Last(r) ==
    LET obj == readers[r].branchName_obj_
        left == numInstances_[obj] - 1
        gInstance == instances_[obj]
    IN /\ pc = "run" /\ readers[r].state = "live"
       /\ left <= 0
       /\ numInstances_' = [numInstances_ EXCEPT ![obj] = left]
       /\ IF left < 0 \/ gInstance = Null
          THEN /\ pc' = "abort"
               /\ UNCHANGED <<readers, instances_, ret>>
          ELSE /\ pc' = pc
               /\ readers' = [q \in ReaderIds |->
                                IF q \in {r, gInstance} THEN DeadReader ELSE readers[q]]
               /\ instances_' = [instances_ EXCEPT ![obj] = Null]
               /\ ret' = NothingReturned
       /\ UNCHANGED leptonInstances_
       /\ ReaderUnchanged

\* the destructor of the last object reads the array pointers of a registered
\* object that has been destroyed before
Delete_Reader_Dangling(r) ==
    LET obj == readers[r].branchName_obj_
    IN /\ pc = "run" /\ readers[r].state = "live"
       /\ numInstances_[obj] = 1
       /\ instances_[obj] # r /\ Dangling(instances_[obj])
       /\ UndefinedBehaviour

\* setBranchAddresses(tree): only the registered object allocates the arrays and
\* gives the tree their addresses
setBranchAddresses(r) ==
    LET obj == readers[r].branchName_obj_
    IN /\ pc = "run" /\ readers[r].state = "live"
       /\ readers' = IF instances_[obj] = r
                     THEN [readers EXCEPT ![r].arrays = "allocated"]
                     ELSE readers
       /\ leptonInstances_' =
              IF /\ readerClass = "RecoMuonReader" /\ instances_[obj] = r
                 /\ leptonInstances_[obj].owner = r
              THEN [leptonInstances_ EXCEPT ![obj].arrays = "allocated"]
              ELSE leptonInstances_
       /\ ret' = NothingReturned
       /\ UNCHANGED <<pc, numInstances_, instances_>>
       /\ ReaderUnchanged

\* tree->GetEntry(): the tree writes the count of the entry, and the arrays,
\* at the addresses a live RecoHadTauReader gave it.  A count is not negative.
GetEntry(r, n) ==
    /\ pc = "run" /\ readerClass = "RecoHadTauReader"
    /\ readers[r].state = "live" /\ readers[r].arrays = "allocated"
    /\ readers' = [readers EXCEPT ![r].loaded = TRUE, ![r].nHadTaus_ = n]
    /\ ret' = NothingReturned
    /\ UNCHANGED <<pc, numInstances_, instances_, leptonInstances_>>
    /\ ReaderUnchanged

\* RecoHadTau(gInstance->hadTau_pt_[idxHadTau], ...): the index each array is read at
HadTauAt(idxHadTau) == [a \in HadTauArrays |-> idxHadTau]

\* for ( idxHadTau = 0; idxHadTau < nHadTaus; ++idxHadTau ) hadTaus.push_back(...)
RECURSIVE ReadLoop(_, _, _)
ReadLoop(idxHadTau, nHadTaus, hadTaus) ==
    IF idxHadTau < nHadTaus
    THEN ReadLoop(idxHadTau + 1, nHadTaus, Append(hadTaus, HadTauAt(idxHadTau)))
    ELSE hadTaus

\* mutant: the count is compared with >= and the loop runs up to and including it
RecoHadTauReader_read_Inclusive(nHadTaus) ==
    IF nHadTaus >= max_nHadTaus_
    THEN Ended("read", "thrown", << >>)
    ELSE Ended("read", "returned", ReadLoop(0, nHadTaus + 1, << >>))

\* read() from the count on: the exception, or the vector returned
RecoHadTauReader_read(nHadTaus) ==
    IF nHadTaus > max_nHadTaus_
    THEN Ended("read", "thrown", << >>)
    ELSE Ended("read", "returned", ReadLoop(0, nHadTaus, << >>))

\* the counts gInstance->nHadTaus_ can yield: the count of the entry, or any
\* value while the member is not initialized
StoredCounts(g) == IF readers[g].loaded THEN {readers[g].nHadTaus_} ELSE Counts

\* RecoHadTauReader::read() of the object r
Read_HadTaus(r, nHadTaus) ==
    LET gInstance == instances_[readers[r].branchName_obj_]
    IN /\ pc = "run" /\ readerClass = "RecoHadTauReader"
       /\ readers[r].state = "live"
       /\ IF gInstance = Null
          THEN pc' = "abort" /\ UNCHANGED ret
          ELSE /\ nHadTaus \in StoredCounts(gInstance)
               /\ LET out == RecoHadTauReader_read(nHadTaus)
                  IN IF /\ out.outcome = "returned" /\ nHadTaus > 0
                        /\ readers[gInstance].arrays # "allocated"
                     THEN pc' = "ub" /\ UNCHANGED ret
                     ELSE pc' = pc /\ ret' = out
       /\ UNCHANGED <<readers, numInstances_, instances_, leptonInstances_>>
       /\ ReaderUnchanged

\* read() reads nHadTaus_ and the arrays of a registered object that has been destroyed
Read_HadTaus_Dangling(r) ==
    /\ pc = "run" /\ readerClass = "RecoHadTauReader"
    /\ readers[r].state = "live"
    /\ Dangling(instances_[readers[r].branchName_obj_])
    /\ UndefinedBehaviour

\* tree->GetEntry(): the tree writes the entry of the lepton table at the
\* addresses the registered lepton reader gave it, and the muon columns at the
\* addresses of the live RecoMuonReader r
GetEntry_Leptons(r, entry) ==
    LET obj == readers[r].branchName_obj_
    IN /\ pc = "run" /\ readerClass = "RecoMuonReader"
       /\ readers[r].state = "live" /\ readers[r].arrays = "allocated"
       /\ leptonInstances_[obj].arrays = "allocated"
       /\ leptonInstances_' = [leptonInstances_ EXCEPT ![obj].loaded = TRUE,
                                                       ![obj].entry = entry]
       /\ ret' = NothingReturned
       /\ UNCHANGED <<pc, readers, numInstances_, instances_>>
       /\ ReaderUnchanged

\* gLeptonReader->pdgId_[idxLepton]
PdgIdAt(entry, idxLepton) == entry.pdgId_[(idxLepton % Len(entry.pdgId_)) + 1]

\* RecoMuon({ gLeptonReader->pt_[idxLepton], ..., gLeptonReader->pdgId_[idxLepton],
\* ..., gMuonReader->segmentCompatibility_[idxLepton] }): the index every array
\* is read at, and the pdgId the muon is given
RecoMuonAt(entry, idxLepton) ==
    [idxLepton |-> idxLepton, pdgId_ |-> PdgIdAt(entry, idxLepton)]

\* for ( idxLepton = 0; idxLepton < nLeptons; ++idxLepton )
\*   if ( std::abs(gLeptonReader->pdgId_[idxLepton]) == 13 ) muons.push_back(...)
RECURSIVE ReadMuonLoop(_, _, _)
ReadMuonLoop(entry, idxLepton, muons) ==
    IF idxLepton < entry.nLeptons_
    THEN ReadMuonLoop(entry, idxLepton + 1,
                      IF StdAbs(PdgIdAt(entry, idxLepton)) = {13}
                      THEN Append(muons, RecoMuonAt(entry, idxLepton))
                      ELSE muons)
    ELSE muons

\* mutant: every lepton of the table is returned as a muon
RecoMuonReader_read_Unfiltered(entry) ==
    IF entry.nLeptons_ > max_nLeptons_
    THEN Ended("read", "thrown", << >>)
    ELSE Ended("read", "returned",
               [i \in 1..entry.nLeptons_ |-> RecoMuonAt(entry, i - 1)])

\* RecoMuonReader::read() from the count on: the exception, or the vector returned
RecoMuonReader_read(entry) ==
    IF entry.nLeptons_ > max_nLeptons_
    THEN Ended("read", "thrown", << >>)
    ELSE Ended("read", "returned", ReadMuonLoop(entry, 0, << >>))

\* what gLeptonReader->nLeptons_ and gLeptonReader->pdgId_ can yield: the entry
\* read last, or anything while no entry has been read
StoredEntries(obj) ==
    IF leptonInstances_[obj].loaded THEN {leptonInstances_[obj].entry} ELSE LeptonEntries

\* RecoMuonReader::read() of the object r.  The arrays of gMuonReader are read
\* only for a lepton that is a muon.
Read_Muons(r, entry) ==
    LET obj == readers[r].branchName_obj_
        gLeptonReader == leptonInstances_[obj]
        gMuonReader == instances_[obj]
    IN /\ pc = "run" /\ readerClass = "RecoMuonReader"
       /\ readers[r].state = "live"
       /\ IF gLeptonReader.owner = Null \/ gMuonReader = Null
          THEN pc' = "abort" /\ UNCHANGED ret
          ELSE /\ entry \in StoredEntries(obj)
               /\ LET out == RecoMuonReader_read(entry)
                  IN IF \/ /\ out.outcome = "returned" /\ entry.nLeptons_ > 0
                           /\ gLeptonReader.arrays # "allocated"
                        \/ /\ out.hadTaus # << >>
                           /\ readers[gMuonReader].arrays # "allocated"
                     THEN pc' = "ub" /\ UNCHANGED ret
                     ELSE pc' = pc /\ ret' = out
       /\ UNCHANGED <<readers, numInstances_, instances_, leptonInstances_>>
       /\ ReaderUnchanged

\* read() finds a muon and reads gMuonReader->looseIdPOG_ of a registered
\* object that has been destroyed
Read_Muons_Dangling(r) ==
    /\ pc = "run" /\ readerClass = "RecoMuonReader"
    /\ readers[r].state = "live"
    /\ Dangling(instances_[readers[r].branchName_obj_])
    /\ \E entry \in StoredEntries(readers[r].branchName_obj_) :
          RecoMuonReader_read(entry).hadTaus # << >>
    /\ UndefinedBehaviour

NextReaderStep ==
    \/ \E r \in ReaderIds, num \in NumNames, obj \in ObjNames : New_Reader(r, num, obj)
    \/ \E r \in ReaderIds, obj \in ObjNames : New_Reader_Dangling(r, obj)
    \/ \E r \in ReaderIds : Delete_Reader_Counted(r)
    \/ \E r \in ReaderIds : Delete_Reader_Last(r)
    \/ \E r \in ReaderIds : Delete_Reader_Dangling(r)
    \/ \E r \in ReaderIds : setBranchAddresses(r)
    \/ \E r \in ReaderIds, n \in Counts : GetEntry(r, n)
    \/ \E r \in ReaderIds, n \in Counts : Read_HadTaus(r, n)
    \/ \E r \in ReaderIds : Read_HadTaus_Dangling(r)
    \/ \E r \in ReaderIds, entry \in LeptonEntries : GetEntry_Leptons(r, entry)
    \/ \E r \in ReaderIds, entry \in LeptonEntries : Read_Muons(r, entry)
    \/ \E r \in ReaderIds : Read_Muons_Dangling(r)

SpecReader == InitReader /\ [][NextReaderStep]_vars

\* the object registered for the name of r is live and holds the count of an
\* entry: the stored per-event count read() is about
CountStored(r) ==
    LET gInstance == instances_[readers[r].branchName_obj_]
    IN /\ gInstance # Null
       /\ readers[gInstance].state = "live"
       /\ readers[gInstance].loaded

\* the stored count read() of r reads
StoredCount(r) == readers[instances_[readers[r].branchName_obj_]].nHadTaus_

\* C14: RecoHadTauReader::read throws whenever the stored count of the entry
\* exceeds the capacity 32; for every stored count within it, read returns
\* exactly that many records, the i-th (i = 0..count-1, in this order) built
\* from index i of every attribute array, every index read being below the
\* capacity.
C14_ReadChecksCapacity ==
    [][ \A r \in ReaderIds :
          (/\ readerClass = "RecoHadTauReader"
           /\ UNCHANGED <<readers, numInstances_, instances_>>
           /\ readers[r].state = "live" /\ CountStored(r)
           /\ Read_HadTaus(r, StoredCount(r))) =>
              LET n == StoredCount(r)
              IN /\ pc' = "run"
                 /\ ret'.op = "read"
                 /\ IF n > max_nHadTaus_
                    THEN ret'.outcome = "thrown" /\ ret'.hadTaus = << >>
                    ELSE /\ ret'.outcome = "returned"
                         /\ Len(ret'.hadTaus) = n
                         /\ \A i \in 1..n : \A a \in HadTauArrays :
                               /\ ret'.hadTaus[i][a] = i - 1
                               /\ ret'.hadTaus[i][a] < max_nHadTaus_ ]_vars

\* read() has returned the 32 records of an entry that fills the arrays, and
\* has thrown on an entry of 33
C14_Witness ==
    /\ pc = "run" /\ ret.op = "read"
    /\ \E r \in ReaderIds :
          /\ readers[r].state = "live" /\ CountStored(r)
          /\ LET n == StoredCount(r)
             IN \/ /\ n = max_nHadTaus_ /\ ret.outcome = "returned"
                   /\ Len(ret.hadTaus) = max_nHadTaus_
                \/ n = max_nHadTaus_ + 1 /\ ret.outcome = "thrown"

\* the name obj is registered by an object that is live
RegisteredLive(obj) ==
    /\ instances_[obj] # Null
    /\ readers[instances_[obj]].state = "live"

\* C15: constructing a reader (RecoHadTauReader or RecoMuonReader) whose
\* branchName_obj is registered by a live reader with another branchName_num
\* throws and leaves the instance counter and the registered instance unchanged
\* (no object comes to exist); constructing one with the same two names
\* succeeds and increases the counter of the name by exactly one.
C15_UniqueAssociation ==
    [][ \A r \in ReaderIds, num \in NumNames, obj \in ObjNames :
          (New_Reader(r, num, obj) /\ RegisteredLive(obj)) =>
              /\ pc' = "run"
              /\ ret'.op = "new"
              /\ instances_' = instances_
              /\ IF num # readers[instances_[obj]].branchName_num_
                 THEN /\ ret'.outcome = "thrown"
                      /\ numInstances_' = numInstances_
                      /\ readers' = readers
                 ELSE /\ ret'.outcome = "returned"
                      /\ numInstances_'[obj] = numInstances_[obj] + 1
                      /\ \A other \in ObjNames \ {obj} :
                            numInstances_'[other] = numInstances_[other]
                      /\ readers'[r].state = "live" ]_vars

\* a constructor of either class has thrown on a name registered by the one
\* live reader of the name, and a second reader of a name has been constructed
C15_Witness ==
    /\ pc = "run" /\ ret.op = "new"
    /\ \E obj \in ObjNames :
          /\ RegisteredLive(obj)
          /\ \/ ret.outcome = "thrown" /\ numInstances_[obj] = 1
             \/ ret.outcome = "returned" /\ numInstances_[obj] = 2

\* the readers of the name obj that are alive
LiveReaders(obj) ==
    {r \in ReaderIds : readers[r].state = "live" /\ readers[r].branchName_obj_ = obj}

\* C23: after any constructions and destructions, whenever a reader of a name
\* is alive the registered instance of the name is a reader that is alive (also
\* after the first-constructed reader of the name has been destroyed while
\* others remain), so that no read() and no destructor uses a destroyed reader
C23_RegisteredInstanceAlive ==
    \A obj \in ObjNames : LiveReaders(obj) # {} => RegisteredLive(obj)

\* the constructor called next with the two names returns and registers the
\* object it constructs
WouldRegister(branchName_num, branchName_obj) ==
    \A r \in ReaderIds :
       readers[r].state = "unborn" /\ (\A q \in 1..(r - 1) : readers[q].state # "unborn") =>
          /\ readerClass = "RecoMuonReader" =>
                ~leptonReader_setBranchNames(r, branchName_num, branchName_obj).thrown
          /\ ~setBranchNames(r, branchName_num, branchName_obj).thrown
          /\ setBranchNames(r, branchName_num, branchName_obj).instances_[branchName_obj] = r

\* C24: after any constructions and destructions the counter of a name is the
\* number of live readers of the name and no assertion of a destructor fails;
\* the name is unregistered exactly when the counter is 0, the destructor that
\* takes the counter to 0 releasing the buffers of the registered instance; and
\* a reader constructed next for an unregistered name becomes the registered
\* instance whichever row-count name it declares
C24_CountIsLiveReaders ==
    /\ pc # "abort"
    /\ \A obj \in ObjNames :
          /\ numInstances_[obj] = Cardinality(LiveReaders(obj))
          /\ numInstances_[obj] >= 0
          /\ instances_[obj] = Null <=> numInstances_[obj] = 0
          /\ numInstances_[obj] = 1 => ~Dangling(instances_[obj])
          /\ numInstances_[obj] = 0 => \A num \in NumNames : WouldRegister(num, obj)

\* the lepton table holds the entry read last, and the registered muon reader
\* is alive and holds the muon columns
LeptonsStored(r) ==
    LET obj == readers[r].branchName_obj_
    IN /\ leptonInstances_[obj].loaded
       /\ RegisteredLive(obj)
       /\ readers[instances_[obj]].arrays = "allocated"

\* the entry read() of r reads
StoredEntry(r) == leptonInstances_[readers[r].branchName_obj_].entry

\* the indices below the count at which the lepton table holds a muon
MuonIndices(entry) ==
    {i \in 0..(entry.nLeptons_ - 1) : Abs(PdgIdAt(entry, i)) = 13}

\* C25: RecoMuonReader::read throws when the stored count exceeds the lepton
\* capacity; otherwise it returns exactly the entries i of 0..nLeptons-1 with
\* |pdgId[i]| = 13, in increasing order of i and each once, every RecoMuon
\* carrying the pdgId of its entry (a muon id, is_muon() true), at most nLeptons
\* of them
C25_ReadReturnsTheMuons ==
    [][ \A r \in ReaderIds :
          (/\ readerClass = "RecoMuonReader"
           /\ UNCHANGED <<readers, numInstances_, instances_, leptonInstances_>>
           /\ readers[r].state = "live" /\ LeptonsStored(r)
           /\ Read_Muons(r, StoredEntry(r))) =>
              LET entry == StoredEntry(r)
                  muons == ret'.hadTaus
              IN /\ pc' = "run"
                 /\ ret'.op = "read"
                 /\ IF entry.nLeptons_ > max_nLeptons_
                    THEN ret'.outcome = "thrown" /\ muons = << >>
                    ELSE /\ ret'.outcome = "returned"
                         /\ Len(muons) <= entry.nLeptons_
                         /\ {muons[k].idxLepton : k \in 1..Len(muons)} = MuonIndices(entry)
                         /\ \A k \in 1..(Len(muons) - 1) :
                               muons[k].idxLepton < muons[k + 1].idxLepton
                         /\ \A k \in 1..Len(muons) :
                               /\ muons[k].pdgId_ = PdgIdAt(entry, muons[k].idxLepton)
                               /\ Abs(muons[k].pdgId_) = 13
                               /\ muons[k].idxLepton < max_nLeptons_
                               /\ RecoMuon_is_muon(muons[k]) = {TRUE} ]_vars

\* read() has returned the two muons of an entry of three leptons, skipping the
\* electron, or has thrown on an entry of one lepton more than the capacity
C25_Witness ==
    /\ pc = "run" /\ readerClass = "RecoMuonReader" /\ ret.op = "read"
    /\ \E r \in ReaderIds :
          /\ readers[r].state = "live" /\ LeptonsStored(r)
          /\ LET entry == StoredEntry(r)
             IN \/ /\ entry.nLeptons_ = 3 /\ ret.outcome = "returned"
                   /\ Len(ret.hadTaus) = 2
                   /\ ret.hadTaus[1].idxLepton = 1 /\ ret.hadTaus[2].idxLepton = 2
                \/ entry.nLeptons_ = max_nLeptons_ + 1 /\ ret.outcome = "thrown"


(* ------------------------------------------------------------------------ *)
(* The static table pointers of data_to_MC_corrections.cc, statement by     *)
(* statement: every table is a function-local                               *)
(*     static TH* lut = 0;                                                  *)
(*     if ( !lut ) { lut = loadTH*(...); }                                  *)
(*     assert(lut);                                                         *)
(*     ... = get_sf_from_TH*(lut, ...);                                     *)
(* luts is the set of the pointers that are non-null.  The transverse       *)
(* momentum steers none of these statements and is left out of the call.    *)
(* ------------------------------------------------------------------------ *)

\* the most loads of one table the model follows
MaxLoads == 3

Threads == {1, 2}

\* the functions that own static tables, and the functions built of them
CachedFns ==
    { "sf_electronID_and_Iso_loose", "sf_electronID_and_Iso_tight_to_loose",
      "sf_electronID_and_Iso_tight",
      "sf_muonID_and_Iso_loose", "sf_muonID_and_Iso_tight_to_loose",
      "sf_muonID_and_Iso_tight" }
CacheEtaVals == {-1479, 0, 1199, 1200, 1478, 1479}

\* the static pointers a call of f goes through, in the order of its statements
StaticLuts(f, eta) ==
    LET e_loose == <<"electron.lut_id_loose", "electron.lut_iso">>
        e_tight_to_loose ==
            <<"electron.lut_convVeto",
              IF Abs(eta) < 1479 THEN "electron.lut_id_tight_barrel"
                                 ELSE "electron.lut_id_tight_endcap">>
        mu_loose ==
            <<"muon.lut_id_loose",
              IF Abs(eta) < 1200 THEN "muon.lut_iso_barrel" ELSE "muon.lut_iso_endcap",
              "muon.lut_ip">>
        mu_tight_to_loose ==
            <<IF Abs(eta) < 1200 THEN "muon.lut_id_tight_barrel"
                                 ELSE "muon.lut_id_tight_endcap">>
    IN CASE f = "sf_electronID_and_Iso_loose" -> e_loose
         [] f = "sf_electronID_and_Iso_tight_to_loose" -> e_tight_to_loose
         [] f = "sf_electronID_and_Iso_tight" -> e_loose \o e_tight_to_loose
         [] f = "sf_muonID_and_Iso_loose" -> mu_loose
         [] f = "sf_muonID_and_Iso_tight_to_loose" -> mu_tight_to_loose
         [] f = "sf_muonID_and_Iso_tight" -> mu_loose \o mu_tight_to_loose

AllLuts ==
    UNION { {StaticLuts(f, eta)[i] : i \in DOMAIN StaticLuts(f, eta)} :
            f \in CachedFns, eta \in CacheEtaVals }

\* mutant: the pointer is taken to be null at every call
lut_is_null_Always(L, lut) == TRUE

\* !lut
lut_is_null(L, lut) == lut \notin L

\* a thread that is in no call; first: it has not made a call yet; wrote: the
\* static pointers it has assigned
NotCalling(first, wrote) ==
    [at |-> "idle", f |-> "", eta |-> 0, idx |-> 0, first |-> first, wrote |-> wrote]

\* the static pointer the statement of thread t is about
CurrentLut(t) == StaticLuts(thr[t].f, thr[t].eta)[thr[t].idx]

\* the process has made no call yet: every static pointer is null.  who is the
\* set of threads that call; common is the function all of them call first,
\* "" when one thread makes any sequence of calls
InitCache(who, common) ==
    /\ pc = "run" /\ fn \in common
    /\ luts = {}
    /\ thr = [t \in who |-> NotCalling(TRUE, {})]
    /\ loads = [lut \in AllLuts |-> 0]
    /\ lutReads = {}
    /\ lepton1 = NoLepton /\ lepton2 = NoLepton /\ result = 0 /\ sf = One
    /\ passed = FALSE
    /\ IdleSelector /\ IdleHadTau /\ IdleMuon /\ IdleLepton /\ IdleReader

CacheUnchanged ==
    UNCHANGED <<fn, particles, store, selector_, selParticles, hadTau, muon, muonSel,
                idxBin, passed, lepton1, lepton2, result, sf, lepVars, readerVars>>

\* thread t enters f(pt, eta): a call in the sequence of calls of a thread
Call_sf(t, f, eta) ==
    /\ pc = "run" /\ thr[t].at = "idle"
    /\ thr' = [thr EXCEPT ![t] = [at |-> "test", f |-> f, eta |-> eta, idx |-> 1,
                                  first |-> FALSE, wrote |-> thr[t].wrote]]
    /\ UNCHANGED <<pc, luts, loads, lutReads>>
    /\ CacheUnchanged

\* the first call of a thread, to the function the threads have in common
FirstCall_sf(t, eta) == thr[t].first /\ Call_sf(t, fn, eta)

\* if ( !lut )
Test_lut(t) ==
    /\ pc = "run" /\ thr[t].at = "test"
    /\ thr' = [thr EXCEPT ![t].at = IF lut_is_null(luts, CurrentLut(t)) THEN "load"
                                                                          ELSE "read"]
    /\ UNCHANGED <<pc, luts, loads, lutReads>>
    /\ CacheUnchanged

\* lut = loadTH1/loadTH2(fileName, histogramName): a table is loaded and the
\* static pointer assigned, whatever it pointed to
Load_lut(t) ==
    /\ pc = "run" /\ thr[t].at = "load"
    /\ loads[CurrentLut(t)] < MaxLoads
    /\ loads' = [loads EXCEPT ![CurrentLut(t)] = @ + 1]
    /\ luts' = Loaded(luts, CurrentLut(t))
    /\ thr' = [thr EXCEPT ![t].at = "read", ![t].wrote = @ \cup {CurrentLut(t)}]
    /\ UNCHANGED <<pc, lutReads>>
    /\ CacheUnchanged

\* assert(lut); get_sf_from_TH1/TH2(lut, ...); then the next table of the
\* call, or the return
Read_lut(t) ==
    /\ pc = "run" /\ thr[t].at = "read"
    /\ IF lut_is_null(luts, CurrentLut(t))
       THEN /\ pc' = "abort"
            /\ UNCHANGED <<thr, lutReads>>
       ELSE /\ pc' = pc
            /\ lutReads' = lutReads \cup {CurrentLut(t)}
            /\ thr' = [thr EXCEPT ![t] =
                         IF thr[t].idx < Len(StaticLuts(thr[t].f, thr[t].eta))
                         THEN [@ EXCEPT !.at = "test", !.idx = @ + 1]
                         ELSE NotCalling(FALSE, thr[t].wrote)]
    /\ UNCHANGED <<luts, loads>>
    /\ CacheUnchanged

\* thread t is at a statement on a static pointer that another thread assigns,
\* or has assigned, with nothing ordering the two accesses
Races(t) ==
    /\ thr[t].at \in {"test", "load", "read"}
    /\ \E u \in DOMAIN thr \ {t} :
          \/ CurrentLut(t) \in thr[u].wrote
          \/ thr[u].at = "load" /\ CurrentLut(u) = CurrentLut(t)

\* a data race on the static pointer: undefined
DataRace(t) ==
    /\ pc = "run" /\ Races(t)
    /\ pc' = "ub"
    /\ UNCHANGED <<luts, cacheVars>>
    /\ CacheUnchanged

\* one thread makes calls, one after the other
NextCalls ==
    \/ \E f \in CachedFns, eta \in CacheEtaVals : Call_sf(1, f, eta)
    \/ Test_lut(1)
    \/ Load_lut(1)
    \/ Read_lut(1)

SpecCalls == InitCache({1}, {""}) /\ [][NextCalls]_vars

\* the threads make their first calls, all to the same function
NextThreads ==
    \/ \E t \in Threads, eta \in CacheEtaVals : FirstCall_sf(t, eta)
    \/ \E t \in Threads : Test_lut(t)
    \/ \E t \in Threads : Load_lut(t)
    \/ \E t \in Threads : Read_lut(t)
    \/ \E t \in Threads : DataRace(t)

SpecThreads == InitCache(Threads, CachedFns) /\ [][NextThreads]_vars

\* C21: over any sequence of calls of one thread, every table is loaded at most
\* once, and only by a call that has come to the statement reading it (every
\* non-null pointer has been read, or is the one the running call is about to
\* read); a call that comes to a table loaded before reads it without loading,
\* and no table is read through a pointer that has not been assigned
C21_LoadedOnceOnFirstUse ==
    /\ pc = "run"
    /\ \A lut \in AllLuts : loads[lut] = IF lut \in luts THEN 1 ELSE 0
    /\ lutReads \subseteq luts
    /\ \A lut \in luts \ lutReads : thr[1].at = "read" /\ CurrentLut(1) = lut
    /\ thr[1].at = "load" => CurrentLut(1) \notin luts
    /\ thr[1].at = "read" => CurrentLut(1) \in luts

\* a later call is about to read a table an earlier call loaded and read
C21_Witness ==
    /\ thr[1].at = "read"
    /\ CurrentLut(1) \in lutReads
    /\ loads[CurrentLut(1)] = 1
    /\ Cardinality(luts) > 3

\* C22: when two threads make their first calls to the same function at the
\* same time, no table is loaded twice and no thread reads a table before it
\* has been loaded
C22_InitializedExactlyOnce ==
    /\ \A lut \in AllLuts : loads[lut] <= 1
    /\ \A t \in Threads : thr[t].at = "read" => CurrentLut(t) \in luts
    /\ lutReads \subseteq luts

==========================================================================
